---- MODULE Spec2Model ----
(***************************************************************************)
(* A model of the spatial reference engine of mritk                        *)
(* (src/src/mritk/data/orientation.py) and of the operations that call it. *)
(*                                                                         *)
(* Conventions.                                                            *)
(*  - An ndarray is a record [shape, val]: shape is the tuple of extents,  *)
(*    val maps every index tuple (0-based entries, as in numpy) to the     *)
(*    element stored there.                                                *)
(*  - An affine is a 4x4 matrix, a tuple of four rows of four numbers.     *)
(*    Axes and matrix rows/columns are numbered 1..4 here where the source *)
(*    numbers them 0..3.                                                   *)
(*  - Numbers are integers.  In the space-equality part the affine entries *)
(*    are counted in units of 1e-8, so that numpy's default absolute       *)
(*    tolerance atol = 1e-8 is the integer Atol.                           *)
(*  - A Python exception is a record [kind |-> "raise", exc, by, ...].     *)
(***************************************************************************)
EXTENDS Integers, Sequences, FiniteSets, TLC

VARIABLES
    \* --- canonical reorientation (data_reorientation) -------------------
    mri,        \* the current MRIData object, or the exception raised
    prev,       \* the MRIData object the last call was given (None at start)
    calls,      \* number of data_reorientation calls made so far
    \* --- space-equality oracle (assert_same_space) -----------------------
    mri1, mri2, \* the two MRIData arguments
    rtol,       \* the relative tolerance, a fraction <<num, den>>
    same,       \* the outcome of the call: None, "return" or an exception
    \* --- coordinate-system catalog (change_of_coordinates_map) -----------
    orientation_in, orientation_out,   \* the two labels
    cocmap,     \* the outcome of the call: None, a matrix or an exception
    \* --- the operations that load and combine datasets -------------------
    call,       \* the operation invoked, with its arguments (None when idle)
    locals,     \* the operation's local variables when it ended
    log,        \* the loads, checks, voxel-wise combinations and saves it made, in order
    saved,      \* the files written by save_mri_data / nibabel.save
    ret,        \* what the operation returned, or the exception that left it
    \* --- points and affines (apply_affine, physical_to_voxel_indices) ----
    affine1, affine2,   \* two 4x4 matrices
    points0,    \* the point batch the calls started from
    points,     \* the current value: a point batch, or the exception raised
    steps,       \* the calls made so far, in order
    \* --- nearest valid voxels (find_nearest_valid_voxels) ----------
    query_indices,   \* the query points, a tuple of coordinate tuples
    valid_mask,   \* the mask, a boolean ndarray
    n_neighbours,   \* the argument k
    dof_neighbours,   \* the outcome of the call: None, an ndarray or an exception
    \* --- array storage (what data_reorientation allocates) ---------
    heap,   \* the array buffers allocated so far, in order of allocation
    caller_mri,   \* the MRIData object the caller holds and passes in
    returned_mri,   \* what the call returned (None before the call)
    writes_to,   \* the objects written in place so far
    \* --- errors reaching a caller of the engine --------------------
    caught,   \* the errors a caller caught so far, each with the condition that caused it
    \* --- the datasets command (datasets.dispatch) ------------------
    args,   \* the dictionary passed to dispatch, which pops entries from it
    args0,   \* the dictionary as the caller built it
    effects,   \* the calls dispatch made to its collaborators, in order
    dispatched   \* the outcome of dispatch: None, a return or an exception

reoVars == <<mri, prev, calls>>
spaceVars == <<mri1, mri2, rtol, same>>
cocVars == <<orientation_in, orientation_out, cocmap>>
opVars == <<call, locals, log, saved, ret>>
ptVars == <<affine1, affine2, points0, points, steps>>
nnVars == <<query_indices, valid_mask, n_neighbours, dof_neighbours>>
memVars == <<heap, caller_mri, returned_mri, writes_to>>
errVars == <<caught>>
dispVars == <<args, args0, effects, dispatched>>
vars == <<mri, prev, calls, mri1, mri2, rtol, same,
          orientation_in, orientation_out, cocmap,
          call, locals, log, saved, ret,
          affine1, affine2, points0, points, steps,
          query_indices, valid_mask, n_neighbours, dof_neighbours,
          heap, caller_mri, returned_mri, writes_to,
          caught,
          args, args0, effects, dispatched>>

None == [kind |-> "none"]

\* the values of the variables of the parts a specification does not use
ReoIdle == mri = None /\ prev = None /\ calls = 0
SpaceIdle == mri1 = None /\ mri2 = None /\ rtol = None /\ same = None
CocIdle == orientation_in = None /\ orientation_out = None /\ cocmap = None
OpIdle == call = None /\ locals = None /\ log = <<>> /\ saved = {} /\ ret = None
PtIdle ==
    affine1 = None /\ affine2 = None /\ points0 = None /\ points = None /\ steps = <<>>
NnIdle == query_indices = None /\ valid_mask = None /\ n_neighbours = None /\ dof_neighbours = None
MemIdle == heap = <<>> /\ caller_mri = None /\ returned_mri = None /\ writes_to = {}
ErrIdle == caught = <<>>
DispIdle == args = None /\ args0 = None /\ effects = <<>> /\ dispatched = None

(***************************************************************************)
(* Bounds of the model.                                                    *)
(***************************************************************************)
MaxDim == 2      \* the spatial shape is <<2, 1, MaxDim + 1>>
MaxMag == 2      \* affine entries of the reorientation inputs: -MaxMag..MaxMag
MaxCalls == 2    \* data_reorientation is applied at most MaxCalls times in a row

(***************************************************************************)
(* Small arithmetic helpers.                                               *)
(***************************************************************************)
Abs(x) == IF x < 0 THEN -x ELSE x

\* np.sign on a finite number
Sign(x) == IF x > 0 THEN 1 ELSE IF x < 0 THEN -1 ELSE 0

\* Python's floor division by a positive divisor
FloorDiv(x, d) == x \div d

Eye4 == <<  <<1, 0, 0, 0>>, <<0, 1, 0, 0>>, <<0, 0, 1, 0>>, <<0, 0, 0, 1>>  >>

\* the @ operator on 4x4 matrices
MatMul(X, Y) ==
    [i \in 1..4 |-> [j \in 1..4 |->
        X[i][1] * Y[1][j] + X[i][2] * Y[2][j] + X[i][3] * Y[3][j] + X[i][4] * Y[4][j]]]

\* column c of the 3x3 linear block of M, as a tuple of its three rows
Column(M, c) == <<M[1][c], M[2][c], M[3][c]>>

\* np.argmax over a tuple: the FIRST index holding the largest value
ArgMax(v) ==
    CHOOSE r \in 1..Len(v) :
        /\ \A q \in 1..Len(v) : v[q] <= v[r]
        /\ \A q \in 1..(r - 1) : v[q] < v[r]

AbsVec(v) == [q \in 1..Len(v) |-> Abs(v[q])]

(***************************************************************************)
(* ndarray and MRIData.                                                    *)
(***************************************************************************)
MaxExtent(shape) ==
    CHOOSE m \in {shape[k] : k \in 1..Len(shape)} :
        \A k \in 1..Len(shape) : shape[k] <= m

\* all index tuples of an array of the given (non-empty) shape
Indices(shape) ==
    {ix \in [1..Len(shape) -> 0..(MaxExtent(shape) - 1)] :
        \A k \in 1..Len(shape) : ix[k] < shape[k]}

\* MRIData.__init__: stores the two arguments, checks nothing
MRIData(data, affine) == [kind |-> "MRIData", data |-> data, affine |-> affine]

Raise(exc, by) == [kind |-> "raise", exc |-> exc, by |-> by]

IsMRI(x) == x.kind = "MRIData"
IsRaise(x) == "kind" \in DOMAIN x /\ x.kind = "raise"

(***************************************************************************)
(* apply_affine(T, X) for one point p (a 3-tuple): A.p + b.                *)
(***************************************************************************)
apply_affine(T, p) ==
    [r \in 1..3 |-> T[r][1] * p[1] + T[r][2] * p[2] + T[r][3] * p[3] + T[r][4]]

\* a variant of permutes that assigns column c to row c
PermutesIdentity(affine) == <<1, 2, 3>>

(***************************************************************************)
(* data_reorientation(mri_data).                                           *)
(***************************************************************************)
\* permutes = np.argmax(np.abs(A), axis=0): per column, the dominant row
Permutes(affine) == [c \in 1..3 |-> ArgMax(AbsVec(Column(affine, c)))]

\* a variant that forgets the sign of the dominant entry (never flips)
FlipsUnsigned(affine) == [c \in 1..3 |-> 1]

\* flips = np.sign(A[argmax, arange(3)]).astype(int)
Flips(affine) == [c \in 1..3 |-> Sign(affine[Permutes(affine)[c]][c])]

\* a variant that offsets every axis, flipped or not
OffsetsAlways(affine, shape) == [c \in 1..3 |-> shape[c] - 1]

\* offsets = ((1 - flips) // 2) * (shape[:3] - 1)
Offsets(affine, shape) ==
    [c \in 1..3 |-> FloorDiv(1 - Flips(affine)[c], 2) * (shape[c] - 1)]

\* F = eye(4); F[:3, :3] = diag(flips); F[:3, 3] = offsets
FlipMatrix(flips, offsets) ==
    [i \in 1..4 |-> [j \in 1..4 |->
        IF i = 4 THEN Eye4[i][j]
        ELSE IF j = 4 THEN offsets[i]
        ELSE IF i = j THEN flips[i] ELSE 0]]

\* P = np.eye(4, dtype=int)[[*permutes, 3]]: row r of P is row permutes[r] of eye
PermMatrix(permutes) ==
    [i \in 1..4 |-> IF i = 4 THEN Eye4[4] ELSE Eye4[permutes[i]]]

\* a variant that forgets the transposition of P (yields permutes again)
InversePermutesNoT(P) == [r \in 1..3 |-> ArgMax(<<P[r][1], P[r][2], P[r][3]>>)]

\* inverse_permutes = np.argmax(P[:3, :3].T, axis=1)
InversePermutes(P) == [r \in 1..3 |-> ArgMax(<<P[1][r], P[2][r], P[3][r]>>)]

\* data[::f0, ::f1, ::f2, ...]: a step of -1 reverses the axis, +1 keeps it
FlipArray(data, flips) ==
    [shape |-> data.shape,
     val |-> [ix \in Indices(data.shape) |->
                data.val[[k \in 1..Len(data.shape) |->
                    IF k <= 3 /\ flips[k] = -1
                    THEN data.shape[k] - 1 - ix[k]
                    ELSE ix[k]]]]]

\* ndarray.transpose(axes), axes a permutation: new axis r is old axis axes[r]
Transpose(data, axes) ==
    LET newshape == [r \in 1..Len(data.shape) |-> data.shape[axes[r]]]
    IN  [shape |-> newshape,
         val |-> [ix \in Indices(newshape) |->
                    data.val[[k \in 1..Len(data.shape) |->
                        ix[CHOOSE r \in 1..Len(data.shape) : axes[r] = k]]]]]

\* the axes list [*inverse_permutes, *range(3, ndim)]
TransposeAxes(inverse_permutes, ndim) ==
    [r \in 1..ndim |-> IF r <= 3 THEN inverse_permutes[r] ELSE r]

IsPermutation(axes) == \A k \in 1..Len(axes) : \E r \in 1..Len(axes) : axes[r] = k

data_reorientation(mri_data) ==
    LET shape == mri_data.data.shape
        flips == Flips(mri_data.affine)
        permutes == Permutes(mri_data.affine)
        offsets == Offsets(mri_data.affine, shape)
        F == FlipMatrix(flips, offsets)
        P == PermMatrix(permutes)
        affine == MatMul(MatMul(mri_data.affine, F), P)
        inverse_permutes == InversePermutes(P)
        axes == TransposeAxes(inverse_permutes, Len(shape))
    IN  IF \E c \in 1..3 : flips[c] = 0
        THEN Raise("ValueError", "slice")        \* slice step cannot be zero
        ELSE IF ~IsPermutation(axes)
        THEN Raise("ValueError", "transpose")    \* repeated axis in transpose
        ELSE MRIData(Transpose(FlipArray(mri_data.data, flips), axes), affine)

(***************************************************************************)
(* Inputs of the reorientation specification.                              *)
(*                                                                         *)
(* The linear block is a signed, scaled permutation matrix with one entry  *)
(* overwritten: this yields the axis-aligned cases (every permutation and  *)
(* every combination of flips), oblique blocks with a strictly dominant    *)
(* entry per column, columns with two entries of equal largest magnitude,  *)
(* blocks whose dominant rows collide, and blocks with a zero column.      *)
(***************************************************************************)
Perms3 == {p \in [1..3 -> 1..3] : \A k \in 1..3 : \E c \in 1..3 : p[c] = k}

ReoLinearBlocks ==
    {[r \in 1..3 |-> [c \in 1..3 |->
        IF r = e[1] /\ c = e[2] THEN v
        ELSE IF r = p[c] THEN s[c] * m ELSE 0]] :
      p \in Perms3, s \in [1..3 -> {-1, 1}], m \in 1..MaxMag,
      e \in (1..3) \X (1..3), v \in (-MaxMag)..MaxMag}

Translations == {<<3, -1, 2>>}

WithTranslation(B, t) ==
    [i \in 1..4 |-> [j \in 1..4 |->
        IF i = 4 THEN Eye4[i][j] ELSE IF j = 4 THEN t[i] ELSE B[i][j]]]

ReoAffines == {WithTranslation(B, t) : B \in ReoLinearBlocks, t \in Translations}

\* a spatial shape with pairwise different extents, one of them 1
SpatialShapes == {<<2, 1, MaxDim + 1>>}

\* no trailing dimension, or one trailing (channel/time) dimension of extent 2
TrailingShapes == {<<>>, <<2>>}

\* every element is tagged with the index it is stored at
IndexTag(ix) ==
    ix[1] + 10 * ix[2] + 100 * ix[3] + (IF Len(ix) > 3 THEN 1000 * ix[4] ELSE 0)

TaggedArray(shape) == [shape |-> shape, val |-> [ix \in Indices(shape) |-> IndexTag(ix)]]

ReoInputs ==
    {MRIData(TaggedArray(sp \o tr), A) :
        sp \in SpatialShapes, tr \in TrailingShapes, A \in ReoAffines}

(***************************************************************************)
(* The reorientation specification: a dataset is constructed, then         *)
(* data_reorientation is applied to it, and again to what it returned.     *)
(***************************************************************************)
InitReo ==
    /\ mri \in ReoInputs
    /\ prev = None
    /\ calls = 0
    /\ SpaceIdle /\ CocIdle /\ OpIdle /\ PtIdle /\ NnIdle /\ MemIdle /\ ErrIdle /\ DispIdle

Reorient ==
    /\ calls < MaxCalls
    /\ IsMRI(mri)
    /\ prev' = mri
    /\ mri' = data_reorientation(mri)
    /\ calls' = calls + 1
    /\ UNCHANGED <<spaceVars, cocVars, opVars, ptVars, nnVars, memVars, errVars, dispVars>>

NextReo == Reorient

SpecReo == InitReo /\ [][NextReo]_vars

(***************************************************************************)
(* Properties of canonical reorientation.                                  *)
(***************************************************************************)
\* the per-column dominant rows form a permutation of the three axes
OneToOne(affine) == IsPermutation(Permutes(affine))

NoZeroColumn(affine) == \A c \in 1..3 : \E r \in 1..3 : affine[r][c] # 0

Spatial(ix) == <<ix[1], ix[2], ix[3]>>

\* The index at which the element stored at ix is expected after
\* reorientation: on every flipped axis c (negative dominant entry) the index
\* becomes size-1-index, then array axis c becomes axis Permutes[c]; the
\* trailing indices are kept.
Corresponding(d, ix) ==
    [k \in 1..Len(ix) |->
        IF k > 3 THEN ix[k]
        ELSE LET c == CHOOSE c \in 1..3 : Permutes(d.affine)[c] = k
             IN  IF Flips(d.affine)[c] = -1
                 THEN d.data.shape[c] - 1 - ix[c]
                 ELSE ix[c]]

C2_ReorientationIdempotent ==
    calls >= 2 =>
        /\ IsMRI(mri)
        /\ mri.data = prev.data
        /\ mri.affine = prev.affine
        /\ Permutes(prev.affine) = <<1, 2, 3>>
        /\ Flips(prev.affine) = <<1, 1, 1>>
        /\ Offsets(prev.affine, prev.data.shape) = <<0, 0, 0>>

\* the second application met a column with two entries of equal largest
\* magnitude (the first of them is the diagonal entry), in a dataset whose
\* first reorientation had moved the origin
C2_Witness ==
    /\ calls = 2 /\ IsMRI(mri)
    /\ \E c \in 1..2 : \E r \in (c + 1)..3 :
          Abs(prev.affine[r][c]) = Abs(prev.affine[c][c])
    /\ <<prev.affine[1][4], prev.affine[2][4], prev.affine[3][4]>> \notin Translations

\* C3: whenever data_reorientation returns, every diagonal entry of the output
\* linear block is strictly positive and has the largest magnitude of its column.
C3_PositiveDominantDiagonal ==
    (calls >= 1 /\ IsMRI(mri)) =>
        \A c \in 1..3 :
            /\ mri.affine[c][c] > 0
            /\ \A r \in 1..3 : Abs(mri.affine[r][c]) <= mri.affine[c][c]

\* an oblique input with a negative dominant entry and permuted axes was
\* reoriented
C3_Witness ==
    /\ calls = 1 /\ IsMRI(mri)
    /\ Permutes(prev.affine) # <<1, 2, 3>>
    /\ \E c \in 1..3 : Flips(prev.affine)[c] = -1
    /\ \E r, c \in 1..3 : r # c /\ mri.affine[r][c] # 0

(***************************************************************************)
(* assert_same_space(mri1, mri2, rtol).                                    *)
(*                                                                         *)
(* np.allclose(a, b, rtol) tests |a - b| <= atol + rtol * |b| entry by     *)
(* entry, with the default atol = 1e-8.  rtol is the fraction              *)
(* rtol[1] / rtol[2]; the affine entries are counted in units of 1e-8.     *)
(***************************************************************************)
Atol == 1            \* numpy's default atol, 1e-8, in units of 1e-8
RtolDen == 100000    \* the default rtol is 1e-5 = 1 / RtolDen

\* a variant that divides, |a - b| / |b| <= rtol: 0/0 is nan and compares false
IsCloseDivide(a, b, rt) == b # 0 /\ Abs(a - b) * rt[2] <= rt[1] * Abs(b)

\* a variant without the absolute term (atol = 0)
IsCloseNoAtol(a, b, rt) == Abs(a - b) * rt[2] <= rt[1] * Abs(b)

\* one entry of np.isclose
\* a variant whose tolerance is relative to the first argument
IsCloseFirst(a, b, rt) == Abs(a - b) * rt[2] <= Atol * rt[2] + rt[1] * Abs(a)

\* np.isclose: |a - b| <= atol + rtol * |b|, relative to the second argument
IsClose(a, b, rt) == Abs(a - b) * rt[2] <= Atol * rt[2] + rt[1] * Abs(b)

AllClose(A, B, rt) == \A i, j \in 1..4 : IsClose(A[i][j], B[i][j], rt)

\* np.nanmax(np.abs((A - B) / B)): a fraction num/den, or inf when some entry
\* of B is 0 where A is not, or nan when every quotient is 0/0
Entries4 == (1..4) \X (1..4)

MaxRelErr(A, B) ==
    LET defined == {e \in Entries4 : B[e[1]][e[2]] # 0}
        num(e) == Abs(A[e[1]][e[2]] - B[e[1]][e[2]])
        den(e) == Abs(B[e[1]][e[2]])
    IN  IF \E e \in Entries4 : B[e[1]][e[2]] = 0 /\ A[e[1]][e[2]] # 0
        THEN [kind |-> "inf"]
        ELSE IF defined = {}
        THEN [kind |-> "nan"]
        ELSE LET m == CHOOSE e \in defined :
                        \A f \in defined : num(f) * den(e) <= num(e) * den(f)
             IN  [kind |-> "frac", num |-> num(m), den |-> den(m)]

\* a variant that compares the spatial extents only
assert_same_space_spatial(m1, m2, rt) ==
    IF /\ SubSeq(m1.data.shape, 1, 3) = SubSeq(m2.data.shape, 1, 3)
       /\ AllClose(m1.affine, m2.affine, rt)
    THEN [kind |-> "return"]
    ELSE [kind |-> "raise", exc |-> "ValueError", by |-> "assert_same_space",
          rtol |-> rt,
          shapes |-> <<m1.data.shape, m2.data.shape>>,
          affines |-> <<m1.affine, m2.affine>>,
          err |-> MaxRelErr(m1.affine, m2.affine)]

\* the outcome of the call: a normal return, or the ValueError with the
\* fields its message is formatted from
assert_same_space(m1, m2, rt) ==
    IF /\ m1.data.shape = m2.data.shape
       /\ AllClose(m1.affine, m2.affine, rt)
    THEN [kind |-> "return"]
    ELSE [kind |-> "raise", exc |-> "ValueError", by |-> "assert_same_space",
          rtol |-> rt,
          shapes |-> <<m1.data.shape, m2.data.shape>>,
          affines |-> <<m1.affine, m2.affine>>,
          err |-> MaxRelErr(m1.affine, m2.affine)]

(***************************************************************************)
(* Inputs of the space-equality specification: two datasets whose affines  *)
(* are a common base affine with one entry each overwritten (the same      *)
(* entry or two different ones), whose shapes agree, differ in a trailing  *)
(* dimension only, or differ spatially; and three tolerances.              *)
(***************************************************************************)
MaxDelta == 2    \* overwritten entries are at most MaxDelta away from 0 or RtolDen

BaseAffine == <<  <<RtolDen, 0, 0, 1>>, <<0, 1, 0, 2>>, <<0, 0, 1, 0>>, <<0, 0, 0, 1>>  >>

\* <<row, column, value>>: a large diagonal entry, a zero off-diagonal entry
\* and a translation entry
Overwrites ==
    {<<1, 1, RtolDen + d>> : d \in (-MaxDelta)..MaxDelta}
        \cup {<<2, 3, v>> : v \in 0..MaxDelta}
        \cup {<<3, 4, v>> : v \in 0..MaxDelta}

Overwritten(M, w) ==
    [i \in 1..4 |-> [j \in 1..4 |-> IF i = w[1] /\ j = w[2] THEN w[3] ELSE M[i][j]]]

SpaceShapes == {<<2, 1, 1>>, <<1, 2, 1>>, <<2, 1, 1, 2>>, <<2, 1, 1, 3>>}

SpaceInputs ==
    {MRIData(TaggedArray(sh), Overwritten(BaseAffine, w)) :
        sh \in SpaceShapes, w \in Overwrites}

Rtols == {<<0, 1>>, <<1, RtolDen>>, <<1, 2>>}

InitSpace ==
    /\ mri1 \in SpaceInputs
    /\ mri2 \in SpaceInputs
    /\ rtol \in Rtols
    /\ same = None
    /\ ReoIdle /\ CocIdle /\ OpIdle /\ PtIdle /\ NnIdle /\ MemIdle /\ ErrIdle /\ DispIdle

AssertSameSpace ==
    /\ same = None
    /\ IsMRI(mri1)
    /\ same' = assert_same_space(mri1, mri2, rtol)
    /\ UNCHANGED <<mri1, mri2, rtol, reoVars, cocVars, opVars, ptVars, nnVars, memVars, errVars, dispVars>>

NextSpace == AssertSameSpace

SpecSpace == InitSpace /\ [][NextSpace]_vars

(***************************************************************************)
(* Properties of the space-equality oracle.                                *)
(***************************************************************************)
\* the tolerance test, entry by entry: |a - b| <= atol + rtol * |b|
WithinTolerance(A, B, rt) ==
    \A i, j \in 1..4 :
        Abs(A[i][j] - B[i][j]) * rt[2] <= Atol * rt[2] + rt[1] * Abs(B[i][j])

SpatialShape(m) == SubSeq(m.data.shape, 1, 3)

\* C6 as stated: the call returns whenever the spatial shapes (first three
\* dimensions) are identical and the affines are within tolerance, whatever
\* the trailing dimensions.
C6_SpatialShapesSuffice ==
    (/\ same # None
     /\ SpatialShape(mri1) = SpatialShape(mri2)
     /\ WithinTolerance(mri1.affine, mri2.affine, rtol)) => same.kind = "return"

\* C6 as amended: the call returns whenever the full shapes (every dimension,
\* trailing ones included) are identical and the affines are within tolerance.
C6_FullShapesSuffice ==
    (/\ same # None
     /\ mri1.data.shape = mri2.data.shape
     /\ WithinTolerance(mri1.affine, mri2.affine, rtol)) => same.kind = "return"

\* a call returned for two 4-dimensional datasets whose affines differ, within
\* tolerance, in the large diagonal entry, at the default rtol
C6_Witness ==
    /\ same.kind = "return"
    /\ Len(mri1.data.shape) = 4
    /\ mri1.affine[1][1] = mri2.affine[1][1] + 2
    /\ rtol = <<1, RtolDen>>

\* the error reports the largest relative discrepancy |a - b| / |b|
IsMaxRelErr(err, A, B) ==
    LET infinite == \E e \in Entries4 : B[e[1]][e[2]] = 0 /\ A[e[1]][e[2]] # 0
        defined == {e \in Entries4 : B[e[1]][e[2]] # 0}
    IN  /\ (err.kind = "inf") <=> infinite
        /\ (err.kind = "nan") <=> (~infinite /\ defined = {})
        /\ (err.kind = "frac") =>
              /\ \A e \in defined :
                    Abs(A[e[1]][e[2]] - B[e[1]][e[2]]) * err.den
                        <= err.num * Abs(B[e[1]][e[2]])
              /\ \E e \in defined :
                    Abs(A[e[1]][e[2]] - B[e[1]][e[2]]) * err.den
                        = err.num * Abs(B[e[1]][e[2]])

C9_Reflexive ==
    (same # None /\ mri1 = mri2) => same.kind = "return"

\* the call was made with one dataset as both arguments, at rtol = 0
C9_Witness ==
    /\ same # None /\ mri1 = mri2 /\ rtol = <<0, 1>>
    /\ mri1.affine # BaseAffine

(***************************************************************************)
(* change_of_coordinates_map(orientation_in, orientation_out).             *)
(*                                                                         *)
(* A label is a sequence of one-character strings.                         *)
(***************************************************************************)
axes_labels == [R |-> 0, L |-> 0, A |-> 1, P |-> 1, S |-> 2, I |-> 2]

NaN == [kind |-> "nan"]

\* the inner loop over orientation_out from position idx2 on (1-based, as the
\* source enumerates it): the value stored in order[idx1], or the error
\* raised; order[idx1] stays nan when the loop body never runs
RECURSIVE InnerLoop(_, _, _)
InnerLoop(char1, out, idx2) ==
    IF idx2 > Len(out) THEN NaN
    ELSE LET char2 == out[idx2]
         IN  IF char2 \notin DOMAIN axes_labels
             THEN [kind |-> "raise", exc |-> "ValueError", by |-> "invalid axis label",
                   char |-> char2]
             ELSE IF axes_labels[char1] = axes_labels[char2]
             THEN [kind |-> "val", v |-> IF char1 = char2 THEN idx2 ELSE -idx2]
             ELSE IF idx2 = Len(out)
             THEN [kind |-> "raise", exc |-> "ValueError", by |-> "unmatched axis",
                   char |-> char1]
             ELSE InnerLoop(char1, out, idx2 + 1)

\* one iteration of the outer loop
OuterStep(char1, out) ==
    IF char1 \notin DOMAIN axes_labels
    THEN [kind |-> "raise", exc |-> "ValueError", by |-> "invalid axis label",
          char |-> char1]
    ELSE InnerLoop(char1, out, 1)

\* the outer loop: the first error raised, or the filled order array
OrderLoop(in, out) ==
    LET step == [p \in 1..Len(in) |-> OuterStep(in[p], out)]
    IN  IF \E p \in 1..Len(in) : IsRaise(step[p])
        THEN step[CHOOSE p \in 1..Len(in) :
                    IsRaise(step[p]) /\ \A q \in 1..(p - 1) : ~IsRaise(step[q])]
        ELSE [kind |-> "order", order |-> step]

\* index_flip = np.sign(order).astype(int); a nan is cast to 0 in the builds
\* where nancast = "zero"
IndexFlip(order) ==
    [p \in 1..Len(order) |-> IF order[p].kind = "val" THEN Sign(order[p].v) ELSE 0]

\* a variant that forgets to map back to 0-indexing
IndexOrderOneBased(order) ==
    [p \in 1..Len(order) |-> IF order[p].kind = "val" THEN Abs(order[p].v) ELSE 0]

\* index_order = np.abs(order).astype(int) - 1, 0-based as in the source
IndexOrder(order) ==
    [p \in 1..Len(order) |-> IF order[p].kind = "val" THEN Abs(order[p].v) - 1 ELSE -1]

\* F = np.eye(4); F[:3, :3] = np.diag(index_flip), for 1 or 3 flips (a 1x1
\* diagonal is broadcast over the whole block)
CocFlipMatrix(index_flip) ==
    [i \in 1..4 |-> [j \in 1..4 |->
        IF i = 4 \/ j = 4 THEN Eye4[i][j]
        ELSE IF Len(index_flip) = 1 THEN index_flip[1]
        ELSE IF i = j THEN index_flip[i] ELSE 0]]

\* a variant that selects rows of the identity instead of columns
CocPermMatrixRows(index_order) ==
    [i \in 1..4 |-> [j \in 1..4 |->
        IF i = 4 THEN Eye4[i][j]
        ELSE LET k == index_order[IF Len(index_order) = 1 THEN 1 ELSE i]
             IN  Eye4[IF k < 0 THEN k + 5 ELSE k + 1][j]]]

\* P = np.eye(4); P[:, :3] = P[:, index_order], for 1 or 3 indices each in
\* -4..3 (a negative index counts from the last column; one column is
\* broadcast over the three)
CocPermMatrix(index_order) ==
    [i \in 1..4 |-> [j \in 1..4 |->
        IF j = 4 THEN Eye4[i][j]
        ELSE LET k == index_order[IF Len(index_order) = 1 THEN 1 ELSE j]
             IN  Eye4[i][IF k < 0 THEN k + 5 ELSE k + 1]]]

\* The outcome of the call: [kind |-> "matrix", m] or the error raised.
\* nancast is the build's result of casting nan to int: "min" (the most
\* negative integer, which then indexes out of bounds) or "zero".
change_of_coordinates_map(in, out, nancast) ==
    LET loop == OrderLoop(in, out)
    IN  IF IsRaise(loop) THEN loop
        ELSE LET order == loop.order
                 hasnan == \E p \in 1..Len(order) : order[p].kind = "nan"
                 index_flip == IndexFlip(order)
                 index_order == IndexOrder(order)
             IN  IF Len(order) \notin {1, 3}
                 THEN [kind |-> "raise", exc |-> "ValueError", by |-> "broadcast"]
                 ELSE IF (hasnan /\ nancast = "min")
                         \/ \E p \in 1..Len(order) : index_order[p] > 3
                 THEN [kind |-> "raise", exc |-> "IndexError", by |-> "index"]
                 ELSE [kind |-> "matrix",
                       m |-> MatMul(CocPermMatrix(index_order), CocFlipMatrix(index_flip))]

(***************************************************************************)
(* Inputs of the catalog specification: every pair of labels of up to      *)
(* LabelLen characters over the six axis letters and one foreign letter.   *)
(***************************************************************************)
LabelLen == 3

Letters == {"R", "L", "A", "P", "S", "I", "X"}

Labels == UNION {[1..n -> Letters] : n \in 0..LabelLen}

NanCasts == {"min", "zero"}

InitCoc ==
    /\ orientation_in \in Labels
    /\ orientation_out \in Labels
    /\ cocmap = None
    /\ ReoIdle /\ SpaceIdle /\ OpIdle /\ PtIdle /\ NnIdle /\ MemIdle /\ ErrIdle /\ DispIdle

ChangeOfCoordinates ==
    /\ cocmap = None
    /\ \E nancast \in NanCasts :
          cocmap' = change_of_coordinates_map(orientation_in, orientation_out, nancast)
    /\ UNCHANGED <<orientation_in, orientation_out, reoVars, spaceVars, opVars, ptVars, nnVars, memVars, errVars, dispVars>>

NextCoc == ChangeOfCoordinates

SpecCoc == InitCoc /\ [][NextCoc]_vars

(***************************************************************************)
(* Properties of the coordinate-system catalog.                            *)
(***************************************************************************)
Opposite(ch) ==
    CASE ch = "R" -> "L" [] ch = "L" -> "R"
      [] ch = "A" -> "P" [] ch = "P" -> "A"
      [] ch = "S" -> "I" [] ch = "I" -> "S"

\* a 3-letter label naming each of the three physical axes exactly once
ValidLabel(lab) ==
    /\ Len(lab) = 3
    /\ \A p \in 1..3 : lab[p] \in DOMAIN axes_labels
    /\ \A p, q \in 1..3 : p # q => axes_labels[lab[p]] # axes_labels[lab[q]]

\* C10: for two valid labels the call returns the matrix M with M[q][p] = +1
\* where from[p] = to[q], -1 where from[p] is the opposite pole of to[q], 0
\* elsewhere in the 3x3 block, zero translation and last row [0,0,0,1]; RAS to
\* LIA gives [[-1,0,0,0],[0,0,-1,0],[0,1,0,0],[0,0,0,1]].
C10_SignedPermutationOfLabels ==
    (cocmap # None /\ ValidLabel(orientation_in) /\ ValidLabel(orientation_out)) =>
        /\ cocmap.kind = "matrix"
        /\ \A q, p \in 1..3 :
              cocmap.m[q][p] =
                  IF orientation_in[p] = orientation_out[q] THEN 1
                  ELSE IF Opposite(orientation_in[p]) = orientation_out[q] THEN -1
                  ELSE 0
        /\ \A q \in 1..3 : cocmap.m[q][4] = 0
        /\ cocmap.m[4] = <<0, 0, 0, 1>>
        /\ (orientation_in = <<"R", "A", "S">> /\ orientation_out = <<"L", "I", "A">>) =>
              cocmap.m = <<  <<-1, 0, 0, 0>>, <<0, 0, -1, 0>>,
                             <<0, 1, 0, 0>>, <<0, 0, 0, 1>>  >>

\* the map from RAS to LIA was computed
C10_Witness ==
    /\ cocmap # None /\ cocmap.kind = "matrix"
    /\ orientation_in = <<"R", "A", "S">>
    /\ orientation_out = <<"L", "I", "A">>

\* C11: for two valid labels A and B the maps from A to B and from B to A
\* are both returned and their product is the 4x4 identity.
C11_SwappedLabelsInvert ==
    (cocmap # None /\ ValidLabel(orientation_in) /\ ValidLabel(orientation_out)) =>
        /\ cocmap.kind = "matrix"
        /\ \A nancast \in NanCasts :
              LET back == change_of_coordinates_map(orientation_out, orientation_in, nancast)
              IN  /\ back.kind = "matrix"
                  /\ MatMul(cocmap.m, back.m) = Eye4
                  /\ MatMul(back.m, cocmap.m) = Eye4

\* the map from RAS to ASL, a cyclic permutation with one flip, was computed
C11_Witness ==
    /\ cocmap # None /\ cocmap.kind = "matrix"
    /\ orientation_in = <<"R", "A", "S">>
    /\ orientation_out = <<"A", "S", "L">>

Foreign(lab) == \E p \in 1..Len(lab) : lab[p] \notin DOMAIN axes_labels

\* C12: when either label holds a character outside {R,L,A,P,S,I}, at any
\* position, the call raises and returns no matrix.
C12_ForeignCharacterRaises ==
    (cocmap # None /\ (Foreign(orientation_in) \/ Foreign(orientation_out))) =>
        IsRaise(cocmap)

\* some character of lab_in names a physical axis that no character of
\* lab_out names
Unmatched(lab_in, lab_out) ==
    \E p \in 1..Len(lab_in) :
        /\ lab_in[p] \in DOMAIN axes_labels
        /\ \A q \in 1..Len(lab_out) :
              lab_out[q] \in DOMAIN axes_labels =>
                  axes_labels[lab_out[q]] # axes_labels[lab_in[p]]

\* C13: when some character of orientation_in has no character of the same
\* physical axis in orientation_out (a shorter or empty orientation_out
\* included), the call raises and returns no matrix.
C13_UnmatchedAxisRaises ==
    (cocmap # None /\ Unmatched(orientation_in, orientation_out)) => IsRaise(cocmap)

\* exactly one entry of value +1 or -1 in every row and every column of the
\* 3x3 block, zeros elsewhere in it, and last row [0,0,0,1]
SignedPermutation(m) ==
    /\ \A i, j \in 1..3 : m[i][j] \in {-1, 0, 1}
    /\ \A i \in 1..3 : Cardinality({j \in 1..3 : m[i][j] # 0}) = 1
    /\ \A j \in 1..3 : Cardinality({i \in 1..3 : m[i][j] # 0}) = 1
    /\ m[4] = <<0, 0, 0, 1>>

RepeatsAxis(lab) ==
    \E p, q \in 1..Len(lab) : p # q /\ axes_labels[lab[p]] = axes_labels[lab[q]]

\* C14: for two labels over {R,L,A,P,S,I} the call raises or returns a
\* signed permutation, and it raises when a label repeats a physical axis.
C14_SignedPermutationOrError ==
    (cocmap # None /\ ~Foreign(orientation_in) /\ ~Foreign(orientation_out)) =>
        /\ IsRaise(cocmap) \/ SignedPermutation(cocmap.m)
        /\ (RepeatsAxis(orientation_in) \/ RepeatsAxis(orientation_out)) => IsRaise(cocmap)

(***************************************************************************)
(* Image files, load_mri_data and save_mri_data (data/io.py).              *)
(*                                                                         *)
(* A file is a record [name, suffix, data, affine, affine_is_none]: what   *)
(* nibabel reads from it.  Array elements are integers; NanVal stands for  *)
(* nan, booleans are 0 and 1.                                              *)
(***************************************************************************)
NanVal == 0 - 999

NiftiSuffixes == {".nii", ".nii.gz"}
MghSuffixes == {".mgz", ".mgh"}

\* np.asarray(x, dtype=dtype) / ndarray.astype(dtype), element by element
AsTypeElement(v, dtype) ==
    CASE dtype = "bool" -> (IF v = 0 THEN 0 ELSE 1)      \* nan is True
      [] dtype = "uint8" -> v
      [] dtype = "int16" -> (IF v = NanVal THEN 0 ELSE v)
      [] dtype = "single" -> v

AsType(data, dtype) ==
    [shape |-> data.shape,
     val |-> [ix \in DOMAIN data.val |-> AsTypeElement(data.val[ix], dtype)]]

load_mri_data(file, dtype, orient) ==
    IF file.suffix \notin NiftiSuffixes \cup MghSuffixes
    THEN Raise("ValueError", "load_mri_data")
    ELSE IF file.affine_is_none
    THEN Raise("RuntimeError", "load_mri_data")
    ELSE LET loaded == MRIData(AsType(file.data, dtype), file.affine)
         IN  IF orient THEN data_reorientation(loaded) ELSE loaded

\* nibabel.nifti1.load(path) followed by get_fdata(): the stored array and
\* affine, as they are in the file
nibabel_load(file) ==
    IF file.suffix \notin NiftiSuffixes
    THEN Raise("ImageFileError", "nibabel.nifti1.load")
    ELSE [kind |-> "nii", data |-> file.data, affine |-> file.affine]

\* nibabel.nifti1.save(nii, path): the file written, or the error raised
nibabel_save(nii, path) ==
    IF path.suffix \notin NiftiSuffixes
    THEN Raise("ImageFileError", "nibabel.nifti1.save")
    ELSE [kind |-> "file", name |-> path.name, data |-> nii.data, affine |-> nii.affine]

\* save_mri_data(mri, path, dtype): the file written, or the error raised
save_mri_data(m, path, dtype) ==
    IF path.suffix \notin NiftiSuffixes \cup MghSuffixes
    THEN Raise("ValueError", "save_mri_data")
    ELSE [kind |-> "file", name |-> path.name,
          data |-> AsType(m.data, dtype), affine |-> m.affine]

(***************************************************************************)
(* The log of an operation and its exit.                                   *)
(***************************************************************************)
LoadEv(var, file, via, dtype, orient, value) ==
    [ev |-> "load", var |-> var, file |-> file, via |-> via, dtype |-> dtype,
     orient |-> orient, value |-> value]

AssertEv(a, b, outcome) ==
    [ev |-> "assert_same_space", of |-> {a, b}, ok |-> ~IsRaise(outcome)]

CombineEv(operands, line) == [ev |-> "combine", of |-> operands, line |-> line]

SaveEv(file) == [ev |-> "save", name |-> file.name]

Exit(value, vars_, events, written) ==
    [ret |-> value, locals |-> vars_, log |-> events, saved |-> written]

DefaultRtol == <<1, RtolDen>>

\* a variant in which the caller swallows the error and returns None
PropagateSwallowed(error, vars_, events) == Exit(None, vars_, events, {})

\* assert_same_space is called outside any try block: what it raises leaves
\* the calling operation at once
Propagate(error, vars_, events) == Exit(error, vars_, events, {})

(***************************************************************************)
(* concentration(input, reference, output, r1, mask)                       *)
(* (concentration/concentration.py).  r1 keeps its default, R1Num/R1Den.   *)
(* A concentration is the fraction <<num, den>>; <<0, 0>> stands for nan.  *)
(***************************************************************************)
R1Num == 9
R1Den == 2000

\* x > 1e-10 on an array element (nan > x is False)
Positive(v) == IF v # NanVal /\ v > 0 THEN 1 ELSE 0

\* a float element times a boolean
Times(v, b) == IF v = NanVal THEN NanVal ELSE v * b

\* concentration_from_T1: 1 / r1 * (1 / T1 - 1 / T1_0)
concentration_from_T1(T1, T1_0) == <<R1Den * (T1_0 - T1), R1Num * T1 * T1_0>>

\* lines 49-56
ConcentrationTail(T1_mri, T10_mri, mask_data, vars_, events, output) ==
    LET concentrations ==
            [shape |-> T10_mri.data.shape,
             val |-> [ix \in DOMAIN T10_mri.data.val |->
                        IF mask_data.val[ix] = 1
                        THEN concentration_from_T1(T1_mri.data.val[ix], T10_mri.data.val[ix])
                        ELSE <<0, 0>>]]
        mri_data == MRIData(concentrations, T10_mri.affine)
        vars2 == vars_ @@ ("mask_data" :> mask_data) @@ ("mri_data" :> mri_data)
    IN  IF output = None
        THEN Exit(mri_data, vars2, events, {})
        ELSE LET written == save_mri_data(mri_data, output, "single")
             IN  IF IsRaise(written)
                 THEN Exit(written, vars2, events, {})
                 ELSE Exit(mri_data, vars2, Append(events, SaveEv(written)), {written})

\* lines 45-47
ConcentrationUnmasked(T1_mri, T10_mri, events, output) ==
    LET mask_data ==
            [shape |-> T10_mri.data.shape,
             val |-> [ix \in DOMAIN T10_mri.data.val |->
                        Positive(T10_mri.data.val[ix]) * Positive(T1_mri.data.val[ix])]]
        blank(m) ==
            MRIData([shape |-> m.data.shape,
                     val |-> [ix \in DOMAIN m.data.val |->
                                IF mask_data.val[ix] = 1 THEN m.data.val[ix] ELSE NanVal]],
                    m.affine)
        T1b == blank(T1_mri)
        T10b == blank(T10_mri)
    IN  ConcentrationTail(T1b, T10b, mask_data,
                          ("T1_mri" :> T1b) @@ ("T10_mri" :> T10b),
                          Append(events, CombineEv({"T1_mri", "T10_mri"}, 45)), output)

\* lines 39-43
ConcentrationMasked(T1_mri, T10_mri, events, output, mask) ==
    LET mask_mri == load_mri_data(mask, "bool", TRUE)
        ev1 == Append(events, LoadEv("mask_mri", mask, "load_mri_data", "bool", TRUE, mask_mri))
        loaded == ("T1_mri" :> T1_mri) @@ ("T10_mri" :> T10_mri)
    IN  IF IsRaise(mask_mri) THEN Exit(mask_mri, loaded, ev1, {})
        ELSE
        LET checked == assert_same_space(mask_mri, T10_mri, DefaultRtol)
            ev2 == Append(ev1, AssertEv("mask_mri", "T10_mri", checked))
            vars3 == loaded @@ ("mask_mri" :> mask_mri)
        IN  IF IsRaise(checked) THEN Propagate(checked, vars3, ev2)
            ELSE
            LET mask_data ==
                    [shape |-> mask_mri.data.shape,
                     val |-> [ix \in DOMAIN mask_mri.data.val |->
                                mask_mri.data.val[ix] * Positive(T10_mri.data.val[ix])
                                    * Positive(T1_mri.data.val[ix])]]
                scaled(m) ==
                    MRIData([shape |-> m.data.shape,
                             val |-> [ix \in DOMAIN m.data.val |->
                                        Times(m.data.val[ix], mask_data.val[ix])]],
                            m.affine)
                T1s == scaled(T1_mri)
                T10s == scaled(T10_mri)
            IN  ConcentrationTail(T1s, T10s, mask_data,
                    ("T1_mri" :> T1s) @@ ("T10_mri" :> T10s) @@ ("mask_mri" :> mask_mri),
                    Append(ev2, CombineEv({"mask_mri", "T10_mri", "T1_mri"}, 41)), output)

\* lines 34-38
concentration(input, reference, output, mask) ==
    LET T1_mri == load_mri_data(input, "single", TRUE)
        ev1 == <<LoadEv("T1_mri", input, "load_mri_data", "single", TRUE, T1_mri)>>
    IN  IF IsRaise(T1_mri) THEN Exit(T1_mri, <<>>, ev1, {})
        ELSE
        LET T10_mri == load_mri_data(reference, "single", TRUE)
            ev2 == Append(ev1, LoadEv("T10_mri", reference, "load_mri_data", "single",
                                      TRUE, T10_mri))
        IN  IF IsRaise(T10_mri) THEN Exit(T10_mri, ("T1_mri" :> T1_mri), ev2, {})
            ELSE
            LET checked == assert_same_space(T1_mri, T10_mri, DefaultRtol)
                ev3 == Append(ev2, AssertEv("T1_mri", "T10_mri", checked))
            IN  IF IsRaise(checked)
                THEN Propagate(checked, ("T1_mri" :> T1_mri) @@ ("T10_mri" :> T10_mri), ev3)
                ELSE IF mask # None
                THEN ConcentrationMasked(T1_mri, T10_mri, ev3, output, mask)
                ELSE ConcentrationUnmasked(T1_mri, T10_mri, ev3, output)

(***************************************************************************)
(* intracranial_mask(csf_mask, segmentation, output) and                   *)
(* create_intracranial_mask (masking/masks.py).  largest_island and        *)
(* binary_opening are external: `opened` is any set of voxels, and only    *)
(* its part outside the combined mask counts, since both only remove       *)
(* voxels from ~combined_mask.                                             *)
(***************************************************************************)
create_intracranial_mask(csf_mask, segmentation, opened) ==
    LET checked == assert_same_space(csf_mask, segmentation, DefaultRtol)
    IN  IF IsRaise(checked) THEN checked
        ELSE [shape |-> csf_mask.data.shape,
              val |-> [ix \in DOMAIN csf_mask.data.val |->
                         IF csf_mask.data.val[ix] = 1
                               \/ AsTypeElement(segmentation.data.val[ix], "bool") = 1
                         THEN 1
                         ELSE IF ix \in opened THEN 0 ELSE 1]]

intracranial_mask(csf_mask, segmentation, output, opened) ==
    LET input_csf_mask == load_mri_data(csf_mask, "bool", TRUE)
        ev1 == <<LoadEv("input_csf_mask", csf_mask, "load_mri_data", "bool", TRUE,
                        input_csf_mask)>>
    IN  IF IsRaise(input_csf_mask) THEN Exit(input_csf_mask, <<>>, ev1, {})
        ELSE
        LET segmentation_data == load_mri_data(segmentation, "bool", TRUE)
            ev2 == Append(ev1, LoadEv("segmentation_data", segmentation, "load_mri_data",
                                      "bool", TRUE, segmentation_data))
            loaded == ("input_csf_mask" :> input_csf_mask)
                          @@ ("segmentation_data" :> segmentation_data)
        IN  IF IsRaise(segmentation_data)
            THEN Exit(segmentation_data, ("input_csf_mask" :> input_csf_mask), ev2, {})
            ELSE
            LET mask_data == create_intracranial_mask(input_csf_mask, segmentation_data, opened)
                ev3 == Append(ev2, AssertEv("input_csf_mask", "segmentation_data", mask_data))
            IN  IF IsRaise(mask_data) THEN Propagate(mask_data, loaded, ev3)
                ELSE
                LET ev4 == Append(ev3, CombineEv({"input_csf_mask", "segmentation_data"}, 60))
                    mri_data == MRIData(mask_data, segmentation_data.affine)
                    vars4 == loaded @@ ("mri_data" :> mri_data)
                IN  IF output = None THEN Exit(mri_data, vars4, ev4, {})
                    ELSE LET written == save_mri_data(mri_data, output, "uint8")
                         IN  IF IsRaise(written) THEN Exit(written, vars4, ev4, {})
                             ELSE Exit(mri_data, vars4, Append(ev4, SaveEv(written)),
                                       {written})

(***************************************************************************)
(* generate_stats_dataframe(seg_path, mri_path, seg_pattern,               *)
(* mri_data_pattern) (statistics/compute_stats.py).  A pattern is "none"   *)
(* (not given), "match" or "nomatch" (the outcome of re.match on the file  *)
(* name).  Of the statistics the sum, mean, min and max are modelled.      *)
(***************************************************************************)
\* segmentation/groups.py
CORPUS_CALLOSUM == 251..255
CEREBRAL_WM_RANGES ==
    {2, 41} \cup (3000..3035) \cup (4000..4035) \cup {5001, 5002} \cup {28, 60}
        \cup CORPUS_CALLOSUM \cup {31, 63}
CEREBRAL_CGM_RANGES == {3, 42} \cup (1000..1035) \cup (2000..2035)
SUBCORTICAL_GM_RANGES == {10, 49, 11, 50, 12, 51, 13, 52, 17, 53, 18, 54, 26, 58}
VENTRICLES == {4, 5, 14, 15, 43, 44}
FREESURFER_CSF == VENTRICLES \cup {24}
CORTICAL_CSF == {x + 15000 : x \in CEREBRAL_CGM_RANGES}
SEGMENTATION_GROUPS ==
    [ cerebral_wm |-> CEREBRAL_WM_RANGES,
      cerebral_cortex |-> CEREBRAL_CGM_RANGES,
      cerebellar_wm |-> {7, 46},
      cerebellar_cortex |-> {8, 47},
      csf_freesurfer |-> FREESURFER_CSF,
      cortical_csf |-> CORTICAL_CSF,
      corpus_callosum |-> CORPUS_CALLOSUM,
      subcortical_gm |-> SUBCORTICAL_GM_RANGES ]

\* read_lut: the rows of the lookup table for the labels the files hold
LutDescriptions ==
    [ Left_Cerebral_White_Matter |-> {2}, Left_Lateral_Ventricle |-> {4} ]

RECURSIVE SumOver(_, _)
SumOver(S, f) ==
    IF S = {} THEN 0
    ELSE LET x == CHOOSE y \in S : TRUE IN f[x] + SumOver(S \ {x}, f)

\* lines 93-122 for one region: the record, or the error of np.min on an
\* empty selection
StatsRecord(description, labels, seg, mri_) ==
    LET region_mask == {ix \in DOMAIN seg.data.val : seg.data.val[ix] \in labels}
        voxelcount == Cardinality(region_mask)
        record == [description |-> description, labels |-> labels,
                   voxelcount |-> voxelcount]
        data_mask == {ix \in region_mask : mri_.data.val[ix] # NanVal}
        region_data == [ix \in data_mask |-> mri_.data.val[ix]]
        num_nan == Cardinality({ix \in data_mask : region_data[ix] = NanVal})
        counted == [description |-> description, labels |-> labels,
                    voxelcount |-> voxelcount, num_nan_values |-> num_nan]
    IN  IF voxelcount = 0 THEN record
        ELSE IF num_nan = voxelcount THEN counted
        ELSE IF data_mask = {} THEN Raise("ValueError", "np.min")
        ELSE [description |-> description, labels |-> labels,
              voxelcount |-> voxelcount, num_nan_values |-> num_nan,
              sum |-> SumOver(data_mask, region_data),
              mean |-> <<SumOver(data_mask, region_data), Cardinality(data_mask)>>,
              min |-> CHOOSE v \in {region_data[ix] : ix \in data_mask} :
                          \A ix \in data_mask : v <= region_data[ix],
              max |-> CHOOSE v \in {region_data[ix] : ix \in data_mask} :
                          \A ix \in data_mask : v >= region_data[ix]]

generate_stats_dataframe(seg_path, mri_path, seg_pattern, mri_data_pattern) ==
    LET mri_ == load_mri_data(mri_path, "single", TRUE)
        ev1 == <<LoadEv("mri", mri_path, "load_mri_data", "single", TRUE, mri_)>>
    IN  IF IsRaise(mri_) THEN Exit(mri_, <<>>, ev1, {})
        ELSE
        LET seg == load_mri_data(seg_path, "int16", TRUE)
            ev2 == Append(ev1, LoadEv("seg", seg_path, "load_mri_data", "int16", TRUE, seg))
            loaded == ("mri" :> mri_) @@ ("seg" :> seg)
        IN  IF IsRaise(seg) THEN Exit(seg, ("mri" :> mri_), ev2, {})
            ELSE
            LET checked == assert_same_space(seg, mri_, DefaultRtol)
                ev3 == Append(ev2, AssertEv("seg", "mri", checked))
            IN  IF IsRaise(checked) THEN Propagate(checked, loaded, ev3)
                ELSE IF seg_pattern = "nomatch" \/ mri_data_pattern = "nomatch"
                THEN Exit(Raise("RuntimeError", "generate_stats_dataframe"), loaded, ev3, {})
                ELSE
                LET seg_labels == {seg.data.val[ix] : ix \in DOMAIN seg.data.val} \ {0}
                    described == {d \in DOMAIN LutDescriptions :
                                     LutDescriptions[d] \cap seg_labels # {}}
                    regions == [d \in described \cup DOMAIN SEGMENTATION_GROUPS |->
                                   IF d \in DOMAIN SEGMENTATION_GROUPS
                                   THEN SEGMENTATION_GROUPS[d] ELSE LutDescriptions[d]]
                    records == [d \in DOMAIN regions |-> StatsRecord(d, regions[d], seg, mri_)]
                    ev4 == Append(ev3, CombineEv({"seg", "mri"}, 105))
                IN  IF \E d \in DOMAIN records : IsRaise(records[d])
                    THEN Exit(Raise("ValueError", "np.min"), loaded, ev4, {})
                    ELSE Exit([kind |-> "dataframe", records |-> records], loaded, ev4, {})

(***************************************************************************)
(* mixed_t1map, mixed_t1map_postprocessing and hybrid_t1_map               *)
(* (t1_maps/t1_maps.py).  The T1 lookup table and its interpolator are     *)
(* external and stay uninterpreted; the masks of create_csf_mask and       *)
(* binary_erosion are external too and are any set of voxels `kept`.       *)
(* Shapes that differ are those of Files, which do not broadcast.          *)
(***************************************************************************)
\* IR / SE on array elements, as a fraction; <<0, 0>> stands for nan
Ratio(ir, se) == IF ir = NanVal \/ se = NanVal THEN <<0, 0>> ELSE <<ir, se>>

mixed_t1map(SE_nii_path, IR_nii_path) ==
    LET SE == load_mri_data(SE_nii_path, "single", TRUE)
        ev1 == <<LoadEv("SE", SE_nii_path, "load_mri_data", "single", TRUE, SE)>>
    IN  IF IsRaise(SE) THEN Exit(SE, <<>>, ev1, {})
        ELSE
        LET IR == load_mri_data(IR_nii_path, "single", TRUE)
            ev2 == Append(ev1, LoadEv("IR", IR_nii_path, "load_mri_data", "single", TRUE, IR))
            loaded == ("SE" :> SE) @@ ("IR" :> IR)
        IN  IF IsRaise(IR) THEN Exit(IR, ("SE" :> SE), ev2, {})
            ELSE IF IR.data.shape # SE.data.shape
            THEN Exit(Raise("IndexError", "mixed_t1map"), loaded, ev2, {})
            ELSE
            LET F_data == [shape |-> IR.data.shape,
                           val |-> [ix \in DOMAIN IR.data.val |->
                                      IF SE.data.val[ix] # 0
                                      THEN Ratio(IR.data.val[ix], SE.data.val[ix])
                                      ELSE <<0, 0>>]]
                T1_volume == [shape |-> F_data.shape,
                              val |-> [ix \in DOMAIN F_data.val |->
                                         [kind |-> "interpolated", F |-> F_data.val[ix]]]]
            IN  Exit([kind |-> "nii", data |-> T1_volume, affine |-> IR.affine],
                     loaded, Append(ev2, CombineEv({"SE", "IR"}, 129)), {})

mixed_t1map_postprocessing(se, t1, output, kept) ==
    LET T1map_nii == nibabel_load(t1)
        ev1 == <<LoadEv("T1map_nii", t1, "nibabel", "single", FALSE, T1map_nii)>>
    IN  IF IsRaise(T1map_nii) THEN Exit(T1map_nii, <<>>, ev1, {})
        ELSE
        LET SE_mri == load_mri_data(se, "single", TRUE)
            ev2 == Append(ev1, LoadEv("SE_mri", se, "load_mri_data", "single", TRUE, SE_mri))
            loaded == ("T1map_nii" :> T1map_nii) @@ ("SE_mri" :> SE_mri)
        IN  IF IsRaise(SE_mri) THEN Exit(SE_mri, ("T1map_nii" :> T1map_nii), ev2, {})
            ELSE IF T1map_nii.data.shape # SE_mri.data.shape
            THEN Exit(Raise("IndexError", "mixed_t1map_postprocessing"), loaded, ev2, {})
            ELSE
            LET masked_T1map ==
                    [shape |-> T1map_nii.data.shape,
                     val |-> [ix \in DOMAIN T1map_nii.data.val |->
                                IF ix \in kept THEN T1map_nii.data.val[ix] ELSE NanVal]]
                masked_T1map_nii == [kind |-> "nii", data |-> masked_T1map,
                                     affine |-> T1map_nii.affine]
                ev3 == Append(ev2, CombineEv({"SE_mri", "T1map_nii"}, 155))
                written == nibabel_save(masked_T1map_nii, output)
            IN  IF IsRaise(written) THEN Exit(written, loaded, ev3, {})
                ELSE Exit(None, loaded, Append(ev3, SaveEv(written)), {written})

\* x > threshold on an array element (nan > x is False)
Above(v, threshold) == IF v # NanVal /\ v > threshold THEN 1 ELSE 0

hybrid_t1_map(ll_path, mixed_path, csf_mask_path, threshold, erode, kept) ==
    LET mixed_mri == nibabel_load(mixed_path)
        ev1 == <<LoadEv("mixed_mri", mixed_path, "nibabel", "double", FALSE, mixed_mri)>>
    IN  IF IsRaise(mixed_mri) THEN Exit(mixed_mri, <<>>, ev1, {})
        ELSE
        LET ll_mri == nibabel_load(ll_path)
            ev2 == Append(ev1, LoadEv("ll_mri", ll_path, "nibabel", "double", FALSE, ll_mri))
        IN  IF IsRaise(ll_mri) THEN Exit(ll_mri, ("mixed_mri" :> mixed_mri), ev2, {})
            ELSE
            LET csf_mask_mri == nibabel_load(csf_mask_path)
                ev3 == Append(ev2, LoadEv("csf_mask_mri", csf_mask_path, "nibabel", "double",
                                          FALSE, csf_mask_mri))
                loaded == ("mixed_mri" :> mixed_mri) @@ ("ll_mri" :> ll_mri)
                              @@ ("csf_mask_mri" :> csf_mask_mri)
            IN  IF IsRaise(csf_mask_mri)
                THEN Exit(csf_mask_mri, ("mixed_mri" :> mixed_mri) @@ ("ll_mri" :> ll_mri),
                          ev3, {})
                ELSE IF csf_mask_mri.data.shape # ll_mri.data.shape
                        \/ ll_mri.data.shape # mixed_mri.data.shape
                THEN Exit(Raise("ValueError", "hybrid_t1_map"), loaded, ev3, {})
                ELSE
                LET csf_mask == [ix \in DOMAIN csf_mask_mri.data.val |->
                                    IF erode > 0 /\ ix \notin kept THEN 0
                                    ELSE AsTypeElement(csf_mask_mri.data.val[ix], "bool")]
                    newmask == [ix \in DOMAIN ll_mri.data.val |->
                                   csf_mask[ix] * Above(ll_mri.data.val[ix], threshold)
                                       * Above(mixed_mri.data.val[ix], threshold)]
                    hybrid == [shape |-> ll_mri.data.shape,
                               val |-> [ix \in DOMAIN ll_mri.data.val |->
                                          IF newmask[ix] = 1 THEN mixed_mri.data.val[ix]
                                          ELSE ll_mri.data.val[ix]]]
                IN  Exit([kind |-> "nii", data |-> hybrid, affine |-> ll_mri.affine],
                         loaded,
                         Append(ev3, CombineEv({"csf_mask_mri", "ll_mri", "mixed_mri"}, 182)),
                         {})

(***************************************************************************)
(* The files on disk and the output paths.                                 *)
(***************************************************************************)
\* the array of shape <<Len(vals), 1, 1>> holding vals along its first axis
Line(vals) ==
    [shape |-> <<Len(vals), 1, 1>>,
     val |-> [ix \in Indices(<<Len(vals), 1, 1>>) |-> vals[ix[1] + 1]]]

ImageFile(name, suffix, vals, affine) ==
    [kind |-> "file", name |-> name, suffix |-> suffix, data |-> Line(vals),
     affine |-> affine, affine_is_none |-> FALSE]

\* canonical; stored back to front in the same space (for 2 voxels); shifted;
\* two array axes dominant in the same physical row.  Entries are counted in
\* the unit of Atol, as in the space-equality specification.
AffCanonical == <<  <<1, 0, 0, 0>>, <<0, 1, 0, 0>>, <<0, 0, 1, 0>>, <<0, 0, 0, 1>>  >>
AffReversed ==  <<  <<-1, 0, 0, 1>>, <<0, 1, 0, 0>>, <<0, 0, 1, 0>>, <<0, 0, 0, 1>>  >>
AffShifted ==   <<  <<1, 0, 0, 5>>, <<0, 1, 0, 0>>, <<0, 0, 1, 0>>, <<0, 0, 0, 1>>  >>
AffCollide ==   <<  <<1, 2, 0, 0>>, <<0, 1, 0, 0>>, <<0, 0, 1, 0>>, <<0, 0, 0, 1>>  >>
\* a singular linear block (third row = 2/3 of the sum of the other two) whose
\* dominant entries are on the diagonal and positive
AffSingular ==  <<  <<9, 0, 3, 0>>, <<0, 9, 3, 0>>, <<6, 6, 4, 0>>, <<0, 0, 0, 1>>  >>

Files ==
    { ImageFile("a.nii.gz", ".nii.gz", <<2, 4>>, AffCanonical),
      ImageFile("b.nii", ".nii", <<4, 0>>, AffReversed),
      ImageFile("c.mgz", ".mgz", <<NanVal, 2>>, AffShifted),
      ImageFile("d.nii", ".nii", <<2, 0, 4>>, AffCanonical),
      ImageFile("e.txt", ".txt", <<2, 4>>, AffCanonical),
      ImageFile("f.nii", ".nii", <<2, 4>>, AffCollide),
      ImageFile("g.nii", ".nii", <<2, 0>>, AffShifted),
      ImageFile("h.nii", ".nii", <<2, 4>>, AffSingular),
      ImageFile("i.nii", ".nii", <<2, 2>>, AffShifted) }

OutputPaths ==
    { None,
      [kind |-> "path", name |-> "out.nii.gz", suffix |-> ".nii.gz"],
      [kind |-> "path", name |-> "out.txt", suffix |-> ".txt"] }

(***************************************************************************)
(* The specification of the operations: one operation is invoked on files  *)
(* of the disk and runs to its return or to the exception that leaves it.  *)
(***************************************************************************)
InitOps == ReoIdle /\ SpaceIdle /\ CocIdle /\ OpIdle /\ PtIdle /\ NnIdle /\ MemIdle /\ ErrIdle /\ DispIdle

Finish(invocation, outcome) ==
    /\ call' = invocation
    /\ ret' = outcome.ret
    /\ locals' = outcome.locals
    /\ log' = outcome.log
    /\ saved' = outcome.saved
    /\ UNCHANGED <<reoVars, spaceVars, cocVars, ptVars, nnVars, memVars, errVars, dispVars>>

Concentration ==
    /\ call = None
    /\ \E input \in Files, reference \in Files, mask \in Files \cup {None},
          output \in OutputPaths :
          Finish([kind |-> "call", name |-> "concentration", input |-> input,
                  reference |-> reference, output |-> output, mask |-> mask],
                 concentration(input, reference, output, mask))

\* what an external mask routine may keep or remove
VoxelSets == SUBSET Indices(<<3, 1, 1>>)

Patterns == {"none", "match", "nomatch"}
Thresholds == {1, 3}
Erodes == {0, 1}
Dtypes == {"single", "bool", "int16"}

\* the affines a caller may hand to the constructor: canonical, singular,
\* all zeros, and one whose bottom row is not [0,0,0,1]
ConstructorAffines ==
    { AffCanonical, AffSingular,
      [i \in 1..4 |-> [j \in 1..4 |-> 0]],
      <<  <<1, 0, 0, 0>>, <<0, 1, 0, 0>>, <<0, 0, 1, 0>>, <<1, 0, 0, 1>>  >> }

\* MRIData(data, affine), called directly
ConstructMRIData ==
    /\ call = None
    /\ \E vals \in {<<2, 4>>, <<2, 0, 4>>}, affine \in ConstructorAffines :
          Finish([kind |-> "call", name |-> "MRIData", data |-> Line(vals),
                  affine |-> affine],
                 Exit(MRIData(Line(vals), affine), <<>>, <<>>, {}))

LoadMriData ==
    /\ call = None
    /\ \E path \in Files, dtype \in Dtypes, orient \in BOOLEAN :
          LET loaded == load_mri_data(path, dtype, orient)
          IN  Finish([kind |-> "call", name |-> "load_mri_data", path |-> path,
                      dtype |-> dtype, orient |-> orient],
                     Exit(loaded, <<>>,
                          <<LoadEv("mri", path, "load_mri_data", dtype, orient, loaded)>>,
                          {}))

IntracranialMask ==
    /\ call = None
    /\ \E csf_mask \in Files, segmentation \in Files, output \in OutputPaths,
          opened \in VoxelSets :
          Finish([kind |-> "call", name |-> "intracranial_mask", csf_mask |-> csf_mask,
                  segmentation |-> segmentation, output |-> output],
                 intracranial_mask(csf_mask, segmentation, output, opened))

GenerateStatsDataframe ==
    /\ call = None
    /\ \E seg_path \in Files, mri_path \in Files, seg_pattern \in Patterns,
          mri_data_pattern \in Patterns :
          Finish([kind |-> "call", name |-> "generate_stats_dataframe",
                  seg_path |-> seg_path, mri_path |-> mri_path,
                  seg_pattern |-> seg_pattern, mri_data_pattern |-> mri_data_pattern],
                 generate_stats_dataframe(seg_path, mri_path, seg_pattern, mri_data_pattern))

MixedT1map ==
    /\ call = None
    /\ \E SE_nii_path \in Files, IR_nii_path \in Files :
          Finish([kind |-> "call", name |-> "mixed_t1map", SE_nii_path |-> SE_nii_path,
                  IR_nii_path |-> IR_nii_path],
                 mixed_t1map(SE_nii_path, IR_nii_path))

MixedT1mapPostprocessing ==
    /\ call = None
    /\ \E se \in Files, t1 \in Files, output \in OutputPaths \ {None}, kept \in VoxelSets :
          Finish([kind |-> "call", name |-> "mixed_t1map_postprocessing", se |-> se,
                  t1 |-> t1, output |-> output],
                 mixed_t1map_postprocessing(se, t1, output, kept))

HybridT1Map ==
    /\ call = None
    /\ \E ll_path \in Files, mixed_path \in Files, csf_mask_path \in Files,
          threshold \in Thresholds, erode \in Erodes, kept \in VoxelSets :
          Finish([kind |-> "call", name |-> "hybrid_t1_map", ll_path |-> ll_path,
                  mixed_path |-> mixed_path, csf_mask_path |-> csf_mask_path,
                  threshold |-> threshold, erode |-> erode],
                 hybrid_t1_map(ll_path, mixed_path, csf_mask_path, threshold, erode, kept))

NextOps ==
    \/ ConstructMRIData
    \/ LoadMriData
    \/ Concentration
    \/ IntracranialMask
    \/ GenerateStatsDataframe
    \/ MixedT1map
    \/ MixedT1mapPostprocessing
    \/ HybridT1Map

SpecOps == InitOps /\ [][NextOps]_vars

(***************************************************************************)
(* Claims about the operations.                                            *)
(***************************************************************************)
\* before event i, a successful assert_same_space on the datasets a and b
Asserted(i, a, b) ==
    \E j \in 1..(i - 1) :
        /\ log[j].ev = "assert_same_space"
        /\ log[j].ok
        /\ log[j].of = {a, b}

\* ... on the pair itself, or on each of them with a third operand
Linked(i, a, b) ==
    \/ Asserted(i, a, b)
    \/ \E c \in log[i].of : Asserted(i, a, c) /\ Asserted(i, c, b)

\* C4: in every operation that combines datasets voxel by voxel, a
\* successful assert_same_space on the datasets combined (on the pair, or on
\* both with a common third dataset) comes before the combination.
C4_AssertPrecedesCombination ==
    \A i \in DOMAIN log :
        log[i].ev = "combine" =>
            \A a \in log[i].of, b \in log[i].of : a # b => Linked(i, a, b)

\* what data_reorientation makes of the file's content read as dtype
Reoriented(file, dtype) ==
    data_reorientation(MRIData(AsType(file.data, dtype), file.affine))

\* C5: every dataset that the loading step hands to a consumer (returned by
\* load_mri_data, or read inside a masking or T1 operation) is the
\* output of data_reorientation on what the file holds.
C5_EveryLoadedDatasetReoriented ==
    \A i \in DOMAIN log :
        (log[i].ev = "load" /\ ~IsRaise(log[i].value)) =>
            LET canonical == Reoriented(log[i].file, log[i].dtype)
            IN  /\ ~IsRaise(canonical)
                /\ log[i].value.data = canonical.data
                /\ log[i].value.affine = canonical.affine

CheckedOperations == {"concentration", "intracranial_mask", "generate_stats_dataframe"}

AssertFailed ==
    /\ call # None
    /\ call.name \in CheckedOperations
    /\ \E i \in DOMAIN log : log[i].ev = "assert_same_space" /\ ~log[i].ok

\* C8: when assert_same_space raises inside concentration,
\* intracranial_mask (create_intracranial_mask) or generate_stats_dataframe,
\* the operation ends with that ValueError: it returns nothing, has saved
\* nothing and combined nothing, and the datasets it loaded are, array and
\* affine, as load_mri_data returned them.
C8_AssertFailureAborts ==
    AssertFailed =>
        /\ IsRaise(ret) /\ ret.exc = "ValueError" /\ ret.by = "assert_same_space"
        /\ saved = {}
        /\ log[Len(log)].ev = "assert_same_space"
        /\ \A i \in DOMAIN log : log[i].ev \notin {"combine", "save"}
        /\ \A i \in DOMAIN log :
              log[i].ev = "load" =>
                  /\ log[i].var \in DOMAIN locals
                  /\ locals[log[i].var] = log[i].value
                  /\ log[i].value = load_mri_data(log[i].file, log[i].dtype, TRUE)

\* concentration with a mask: the T1 maps pass the check, the mask fails it,
\* and an output path was given
C8_Witness ==
    /\ AssertFailed
    /\ call.name = "concentration"
    /\ call.mask # None
    /\ call.output # None
    /\ Len(log) = 5
    /\ log[3].ev = "assert_same_space" /\ log[3].ok
    /\ log[5].ev = "assert_same_space" /\ ~log[5].ok

(***************************************************************************)
(* Points and affines: apply_affine on a batch of points and               *)
(* physical_to_voxel_indices (data/orientation.py).                        *)
(*                                                                         *)
(* A number is a fraction <<n, d>> in lowest terms with d > 0; the         *)
(* rounding of floating-point arithmetic on representable results is not   *)
(* modelled.  A matrix is a tuple of rows, a batch a sequence of points.   *)
(***************************************************************************)
RECURSIVE GCD(_, _)
GCD(a, b) == IF b = 0 THEN a ELSE GCD(b, a % b)

Rat(n, d) ==
    LET g == GCD(Abs(n), Abs(d))
        sgn == IF d < 0 THEN -1 ELSE 1
    IN  <<(sgn * n) \div g, (sgn * d) \div g>>

RAdd(x, y) == Rat(x[1] * y[2] + y[1] * x[2], x[2] * y[2])
RSub(x, y) == Rat(x[1] * y[2] - y[1] * x[2], x[2] * y[2])
RMul(x, y) == Rat(x[1] * y[1], x[2] * y[2])
RDiv(x, y) == Rat(x[1] * y[2], x[2] * y[1])
RZero == Rat(0, 1)

RECURSIVE RSum(_)
RSum(terms) == IF terms = <<>> THEN RZero ELSE RAdd(Head(terms), RSum(Tail(terms)))

\* a matrix or a point of integers, as fractions
RatMatrix(M) == [i \in 1..Len(M) |-> [j \in 1..Len(M[i]) |-> Rat(M[i][j], 1)]]
RatPoint(p) == [i \in 1..Len(p) |-> Rat(p[i], 1)]

\* the @ operator on two square matrices of fractions
RatMatMul(M, N) ==
    [i \in 1..Len(M) |-> [j \in 1..Len(M) |->
        RSum([k \in 1..Len(M) |-> RMul(M[i][k], N[k][j])])]]

\* a variant without the translation b
apply_affine_linear(T, X) ==
    [k \in 1..Len(X) |-> [i \in 1..3 |->
        RSum([j \in 1..3 |-> RMul(T[i][j], X[k][j])])]]

\* a variant that translates before it multiplies: A.(p + b)
apply_affine_translate_first(T, X) ==
    [k \in 1..Len(X) |-> [i \in 1..3 |->
        RSum([j \in 1..3 |-> RMul(T[i][j], RAdd(X[k][j], T[j][4]))])]]

\* A = T[:-1, :-1]; b = T[:-1, -1]; A.dot(X.T).T + b
apply_affine_batch(T, X) ==
    [k \in 1..Len(X) |-> [i \in 1..3 |->
        RAdd(RSum([j \in 1..3 |-> RMul(T[i][j], X[k][j])]), T[i][4])]]

\* M without row r and column c, for a 4x4 matrix M
Minor(M, r, c) ==
    LET rows == IF r = 1 THEN <<2, 3, 4>> ELSE IF r = 2 THEN <<1, 3, 4>>
                ELSE IF r = 3 THEN <<1, 2, 4>> ELSE <<1, 2, 3>>
        cols == IF c = 1 THEN <<2, 3, 4>> ELSE IF c = 2 THEN <<1, 3, 4>>
                ELSE IF c = 3 THEN <<1, 2, 4>> ELSE <<1, 2, 3>>
        row(i) == <<M[rows[i]][cols[1]], M[rows[i]][cols[2]], M[rows[i]][cols[3]]>>
    IN  <<row(1), row(2), row(3)>>

Det2(a, b, c, d) == RSub(RMul(a, d), RMul(b, c))

\* the determinant of a 3x3 matrix, along its first row
Det3(M) ==
    RAdd(RSub(RMul(M[1][1], Det2(M[2][2], M[2][3], M[3][2], M[3][3])),
              RMul(M[1][2], Det2(M[2][1], M[2][3], M[3][1], M[3][3]))),
         RMul(M[1][3], Det2(M[2][1], M[2][2], M[3][1], M[3][2])))

\* the determinant of a 4x4 matrix, along its first row
Det(M) ==
    RSub(RAdd(RSub(RMul(M[1][1], Det3(Minor(M, 1, 1))),
                   RMul(M[1][2], Det3(Minor(M, 1, 2)))),
              RMul(M[1][3], Det3(Minor(M, 1, 3)))),
         RMul(M[1][4], Det3(Minor(M, 1, 4))))

\* the inverse of a 4x4 matrix of nonzero determinant
Inverse(M) ==
    LET det == Det(M)
        entry(i, j) ==
            RDiv(RMul(Rat(IF (i + j) % 2 = 0 THEN 1 ELSE -1, 1), Det3(Minor(M, j, i))), det)
        row(i) == <<entry(i, 1), entry(i, 2), entry(i, 3), entry(i, 4)>>
    IN  <<row(1), row(2), row(3), row(4)>>

\* a singular matrix on which elimination in floating point meets a pivot
\* that is exactly zero whatever the rounding: a zero row, a zero column or
\* two equal rows
ExactZeroPivot(M) ==
    \/ \E i \in 1..Len(M) : \A j \in 1..Len(M) : M[i][j] = RZero
    \/ \E j \in 1..Len(M) : \A i \in 1..Len(M) : M[i][j] = RZero
    \/ \E i, k \in 1..Len(M) : i # k /\ M[i] = M[k]

\* np.linalg.inv(M).  It raises only when the elimination meets a pivot that
\* is exactly zero; on other singular matrices rounding decides (lu) whether
\* the pivot comes out as zero or as a tiny number, and in the latter case a
\* matrix of huge entries is returned.
np_linalg_inv(M, lu) ==
    IF Det(M) # RZero THEN [kind |-> "matrix", exact |-> TRUE, m |-> Inverse(M)]
    ELSE IF ExactZeroPivot(M) \/ lu = "zero_pivot"
    THEN Raise("LinAlgError", "np.linalg.inv")
    ELSE [kind |-> "matrix", exact |-> FALSE]

\* a variant of np.rint(x).astype(int) without np.rint: truncation toward zero
Truncate(x) ==
    IF x[1] >= 0 THEN Rat(x[1] \div x[2], 1) ELSE Rat(-((-x[1]) \div x[2]), 1)

\* a variant that rounds a tie away from zero
RintHalfAway(x) ==
    LET lower == x[1] \div x[2]
        rest == x[1] % x[2]
    IN  IF 2 * rest < x[2] THEN Rat(lower, 1)
        ELSE IF 2 * rest > x[2] THEN Rat(lower + 1, 1)
        ELSE IF x[1] >= 0 THEN Rat(lower + 1, 1) ELSE Rat(lower, 1)

\* np.rint(x).astype(int): the nearest integer, the even one at a tie
Rint(x) ==
    LET lower == x[1] \div x[2]
        rest == x[1] % x[2]
    IN  IF 2 * rest < x[2] THEN Rat(lower, 1)
        ELSE IF 2 * rest > x[2] THEN Rat(lower + 1, 1)
        ELSE IF lower % 2 = 0 THEN Rat(lower, 1) ELSE Rat(lower + 1, 1)

Points(dtype, val) == [kind |-> "points", dtype |-> dtype, exact |-> TRUE, val |-> val]

\* a variant that applies the affine itself
physical_to_voxel_indices_forward(physical_coordinates, affine, round_coords, lu) ==
    LET img_space_coords == apply_affine_batch(affine, physical_coordinates)
    IN  IF round_coords
        THEN Points("int", [k \in 1..Len(img_space_coords) |->
                               [i \in 1..3 |-> Rint(img_space_coords[k][i])]])
        ELSE Points("float", img_space_coords)

\* lines 31-34: the voxel coordinates, the error of np.linalg.inv, or
\* coordinates computed from an inverse of huge entries
physical_to_voxel_indices(physical_coordinates, affine, round_coords, lu) ==
    LET inv == np_linalg_inv(affine, lu)
    IN  IF IsRaise(inv) THEN inv
        ELSE IF ~inv.exact
        THEN [kind |-> "points", dtype |-> IF round_coords THEN "int" ELSE "float",
              exact |-> FALSE]
        ELSE LET img_space_coords == apply_affine_batch(inv.m, physical_coordinates)
             IN  IF round_coords
                 THEN Points("int", [k \in 1..Len(img_space_coords) |->
                                        [i \in 1..3 |-> Rint(img_space_coords[k][i])]])
                 ELSE Points("float", img_space_coords)

(***************************************************************************)
(* Inputs of the points specification.                                     *)
(***************************************************************************)
MaxSteps == 2    \* at most MaxSteps calls are chained

Diag4(a, b, c) == <<  <<a, RZero, RZero, RZero>>, <<RZero, b, RZero, RZero>>,
                      <<RZero, RZero, c, RZero>>, RatMatrix(Eye4)[4]  >>

\* identity; translations; the scaling diag(2, 0.5, -1, 1); a permutation
\* with scalings and a translation
Affines2 ==
    { RatMatrix(<<  <<1, 0, 0, 5>>, <<0, 1, 0, 10>>, <<0, 0, 1, -5>>, <<0, 0, 0, 1>>  >>),
      Diag4(Rat(2, 1), Rat(1, 2), Rat(-1, 1)),
      RatMatrix(<<  <<0, -1, 0, 1>>, <<2, 0, 0, 0>>, <<0, 0, 3, -2>>, <<0, 0, 0, 1>>  >>) }

\* ... and: two singular linear blocks (a zero column; rows in arithmetic
\* progression); three matrices whose bottom row is not [0,0,0,1]
Affines1 ==
    Affines2 \cup
    { RatMatrix(Eye4),
      RatMatrix(<<  <<1, 0, 0, 10>>, <<0, 1, 0, 10>>, <<0, 0, 1, 10>>, <<0, 0, 0, 1>>  >>),
      RatMatrix(<<  <<1, 0, 0, 0>>, <<0, 1, 0, 0>>, <<0, 0, 0, 2>>, <<0, 0, 0, 1>>  >>),
      RatMatrix(<<  <<1, 2, 3, 0>>, <<4, 5, 6, 0>>, <<7, 8, 9, 0>>, <<0, 0, 0, 1>>  >>),
      RatMatrix(<<  <<1, 0, 0, 0>>, <<0, 1, 0, 0>>, <<0, 0, 0, 1>>, <<0, 0, 1, 0>>  >>),
      RatMatrix(<<  <<1, 0, 0, 1>>, <<0, 1, 0, 0>>, <<0, 0, 1, 0>>, <<1, 0, 0, 2>>  >>),
      RatMatrix(<<  <<1, 0, 0, 1>>, <<0, 1, 0, 0>>, <<0, 0, 1, 0>>, <<1, 0, 0, 1>>  >>) }

Batches ==
    { <<>>,
      <<RatPoint(<<1, 2, 3>>)>>,
      <<RatPoint(<<0, 0, 0>>), RatPoint(<<1, 1, 1>>)>>,
      <<RatPoint(<<10, 10, 10>>), RatPoint(<<-7, 0, 40>>)>>,
      << <<Rat(101, 10), Rat(101, 10), Rat(101, 10)>>,
         <<Rat(109, 10), Rat(109, 10), Rat(109, 10)>> >>,
      << <<Rat(21, 2), Rat(-3, 2), Rat(5, 2)>> >>,
      << <<Rat(1, 2), Rat(3, 2), Rat(5, 2)>>,
         <<Rat(-1, 2), Rat(-3, 2), Rat(-5, 2)>> >> }

LuRoundings == {"zero_pivot", "tiny_pivot"}

InitPts ==
    /\ affine1 \in Affines1
    /\ affine2 \in Affines2
    /\ points0 \in Batches
    /\ points = Points("float", points0)
    /\ steps = <<>>
    /\ ReoIdle /\ SpaceIdle /\ CocIdle /\ OpIdle /\ NnIdle /\ MemIdle /\ ErrIdle /\ DispIdle

Proceeds == Len(steps) < MaxSteps /\ points.kind = "points" /\ points.exact

Chain == {"affine1", "affine2", "affine1 @ affine2"}

Selected(T) ==
    CASE T = "affine1" -> affine1
      [] T = "affine2" -> affine2
      [] T = "affine1 @ affine2" -> RatMatMul(affine1, affine2)

\* apply_affine(T, points) with T one of affine1, affine2, affine1 @ affine2
ApplyAffine ==
    /\ Proceeds
    /\ \E T \in Chain :
          /\ points' = Points(points.dtype, apply_affine_batch(Selected(T), points.val))
          /\ steps' = Append(steps, [op |-> "apply_affine", T |-> T, from |-> points.val])
    /\ UNCHANGED <<affine1, affine2, points0, reoVars, spaceVars, cocVars, opVars, nnVars, memVars, errVars, dispVars>>

\* physical_to_voxel_indices(points, affine1, round_coords)
PhysicalToVoxelIndices ==
    /\ Proceeds
    /\ \E round_coords \in BOOLEAN, lu \in LuRoundings :
          /\ points' = physical_to_voxel_indices(points.val, affine1, round_coords, lu)
          /\ steps' = Append(steps, [op |-> "physical_to_voxel_indices", T |-> "affine1",
                                     round_coords |-> round_coords, from |-> points.val])
    /\ UNCHANGED <<affine1, affine2, points0, reoVars, spaceVars, cocVars, opVars, nnVars, memVars, errVars, dispVars>>

NextPts == ApplyAffine \/ PhysicalToVoxelIndices

SpecPts == InitPts /\ [][NextPts]_vars

\* C20: every dataset the program holds has an affine with bottom row
\* [0,0,0,1] and an invertible 3x3 linear block; no call ends with a dataset
\* whose affine is singular.
C20_DatasetAffineInvertible ==
    (call # None /\ IsMRI(ret)) =>
        /\ ret.affine[4] = <<0, 0, 0, 1>>
        /\ Det3(Minor(RatMatrix(ret.affine), 4, 4)) # RZero

(***************************************************************************)
(* Properties of apply_affine and physical_to_voxel_indices.               *)
(***************************************************************************)
LastStep == steps[Len(steps)]

Applied == steps # <<>> /\ LastStep.op = "apply_affine"
Inverted == steps # <<>> /\ LastStep.op = "physical_to_voxel_indices"

StandardBottomRow(T) == T[4] = RatPoint(<<0, 0, 0, 1>>)

\* T with its bottom row replaced by another one
WithBottomRow(T, bottom) == <<T[1], T[2], T[3], RatPoint(bottom)>>

IsIdentity(T) == T = RatMatrix(Eye4)

IsTranslation(T) == \A i, j \in 1..3 : T[i][j] = Rat(IF i = j THEN 1 ELSE 0, 1)

\* C15: apply_affine(T, X) returns as many points as X holds, in the same
\* order, the k-th being A.X[k] + b for T's 3x3 block A and translation
\* column b, whatever T's bottom row; the identity returns X, a translation
\* returns X + t, and diag(2, 0.5, -1, 1) maps [1,2,3] to [2,1,-3].
C15_ApplyAffineLinearPlusTranslation ==
    Applied =>
        LET T == Selected(LastStep.T)
            X == LastStep.from
        IN  /\ points.kind = "points"
            /\ Len(points.val) = Len(X)
            /\ \A k \in 1..Len(X), i \in 1..3 :
                  points.val[k][i] =
                      RAdd(RAdd(RMul(T[i][1], X[k][1]), RMul(T[i][2], X[k][2])),
                           RAdd(RMul(T[i][3], X[k][3]), T[i][4]))
            /\ points.val = apply_affine_batch(WithBottomRow(T, <<0, 0, 0, 1>>), X)
            /\ points.val = apply_affine_batch(WithBottomRow(T, <<3, -1, 2, 0>>), X)
            /\ IsIdentity(T) => points.val = X
            /\ IsTranslation(T) =>
                  \A k \in 1..Len(X), i \in 1..3 : points.val[k][i] = RAdd(X[k][i], T[i][4])
            /\ (T = Diag4(Rat(2, 1), Rat(1, 2), Rat(-1, 1)) /\ X = <<RatPoint(<<1, 2, 3>>)>>) =>
                  points.val = <<RatPoint(<<2, 1, -3>>)>>

\* diag(2, 0.5, -1, 1) was applied to the point [1,2,3]
C15_Witness ==
    /\ Applied
    /\ Selected(LastStep.T) = Diag4(Rat(2, 1), Rat(1, 2), Rat(-1, 1))
    /\ LastStep.from = <<RatPoint(<<1, 2, 3>>)>>
    /\ points.val = <<RatPoint(<<2, 1, -3>>)>>

\* C16: for affines with bottom row [0,0,0,1], applying affine2 and then
\* affine1 gives what one application of affine1 @ affine2 gives, and
\* conversely.
C16_ChainAppliesRightmostFirst ==
    (StandardBottomRow(affine1) /\ StandardBottomRow(affine2)) =>
        /\ (Len(steps) = 2 /\ steps[1].op = "apply_affine" /\ steps[1].T = "affine2"
                /\ steps[2].op = "apply_affine" /\ steps[2].T = "affine1") =>
              points.val = apply_affine_batch(RatMatMul(affine1, affine2), points0)
        /\ (Len(steps) = 1 /\ steps[1].op = "apply_affine" /\ steps[1].T = "affine1 @ affine2") =>
              points.val = apply_affine_batch(affine1, apply_affine_batch(affine2, points0))

\* a translation and then a permutation with scalings were applied to a
\* batch of two points; in the other order they give another result
C16_Witness ==
    /\ Len(steps) = 2
    /\ steps[1].op = "apply_affine" /\ steps[1].T = "affine2"
    /\ steps[2].op = "apply_affine" /\ steps[2].T = "affine1"
    /\ StandardBottomRow(affine1) /\ ~IsTranslation(affine1)
    /\ IsTranslation(affine2)
    /\ Len(points0) = 2
    /\ points.val # apply_affine_batch(affine2, apply_affine_batch(affine1, points0))

IntegerBatch(X) == \A k \in 1..Len(X), i \in 1..3 : X[k][i][2] = 1

RoundTrip ==
    /\ Len(steps) = 2
    /\ steps[1].op = "apply_affine" /\ steps[1].T = "affine1"
    /\ steps[2].op = "physical_to_voxel_indices"

Nearest(z, x) == z[2] = 1 /\ 2 * Abs(z[1] * x[2] - x[1]) <= x[2]

\* C18: for an invertible affine, physical_to_voxel_indices returns
\* apply_affine(inverse(affine), points): as it is with round_coords=False,
\* each coordinate replaced by its nearest integer (10.1 -> 10, 10.9 -> 11)
\* with round_coords=True; negative and large coordinates are returned as
\* such.
C18_VoxelIndicesOfInverse ==
    (Inverted /\ Det(affine1) # RZero) =>
        LET X == LastStep.from
            inverse == Inverse(affine1)
            expected == apply_affine_batch(inverse, X)
        IN  /\ RatMatMul(affine1, inverse) = RatMatrix(Eye4)
            /\ points.kind = "points" /\ points.exact
            /\ Len(points.val) = Len(X)
            /\ ~LastStep.round_coords => points = Points("float", expected)
            /\ LastStep.round_coords =>
                  /\ points.dtype = "int"
                  /\ \A k \in 1..Len(X), i \in 1..3 :
                        /\ Nearest(points.val[k][i], expected[k][i])
                        /\ expected[k][i] = Rat(101, 10) => points.val[k][i] = Rat(10, 1)
                        /\ expected[k][i] = Rat(109, 10) => points.val[k][i] = Rat(11, 1)

\* the points [10.1,10.1,10.1], [10.9,10.9,10.9] were rounded under the
\* identity
C18_Witness ==
    /\ Inverted /\ LastStep.round_coords
    /\ IsIdentity(affine1)
    /\ LastStep.from = << <<Rat(101, 10), Rat(101, 10), Rat(101, 10)>>,
                          <<Rat(109, 10), Rat(109, 10), Rat(109, 10)>> >>
    /\ points.kind = "points"
    /\ points.val = <<RatPoint(<<10, 10, 10>>), RatPoint(<<11, 11, 11>>)>>

\* the 3x3 linear block of T has determinant 0
SingularBlock(T) == Det3(Minor(T, 4, 4)) = RZero

\* C19: when the 3x3 linear block of the affine (bottom row [0,0,0,1]) is
\* singular, physical_to_voxel_indices raises and returns no coordinates.
C19_SingularAffineRaises ==
    (Inverted /\ StandardBottomRow(affine1) /\ SingularBlock(affine1)) => IsRaise(points)

(***************************************************************************)
(* Nearest valid voxels: find_nearest_valid_voxels(query_indices, mask, k). *)
(*                                                                         *)
(* Voxel coordinates are integers.  A query coordinate is counted in       *)
(* tenths of a voxel, so that (0.1, 0.1) is <<1, 1>> and (4.9, 4.9) is     *)
(* <<49, 49>>; squared distances are then exact integers, in hundredths.   *)
(* Positions in valid_inds are numbered 1..n here where scipy numbers them *)
(* 0..n-1, so scipy's marker self.n of a missing neighbour is n + 1.       *)
(***************************************************************************)
MaxK == 3         \* k ranges over 1..MaxK
MaxQueries == 2   \* a call is given 1..MaxQueries query points

LexLess(a, b) ==
    \E d \in 1..Len(a) : a[d] < b[d] /\ \A e \in 1..(d - 1) : a[e] = b[e]

\* the index tuples of S in row-major (lexicographic) order
RECURSIVE RowMajor(_)
RowMajor(S) ==
    IF S = {} THEN <<>>
    ELSE LET first == CHOOSE a \in S : \A b \in S \ {a} : LexLess(a, b)
         IN  <<first>> \o RowMajor(S \ {first})

\* a variant of np.argwhere that lists every index, True or not
argwhere_all(a) == RowMajor(Indices(a.shape))

\* np.argwhere(a): the indices of the True elements, in row-major order
argwhere(a) == RowMajor({ix \in Indices(a.shape) : a.val[ix]})

\* a variant of the distance that looks at the first axis only
SqDistFirstAxis(x, p) == (x[1] - 10 * p[1]) * (x[1] - 10 * p[1])

\* squared Euclidean distance of the query x (tenths) to the voxel p
RECURSIVE SqDistFrom(_, _, _)
SqDistFrom(x, p, d) ==
    IF d > Len(p) THEN 0
    ELSE (x[d] - 10 * p[d]) * (x[d] - 10 * p[d]) + SqDistFrom(x, p, d + 1)

SqDist(x, p) == SqDistFrom(x, p, 1)

\* The order in which the tree reports points at equal distance is not
\* specified by scipy: tie ranks the positions 1..n in some order.
TieOrders(n) == {t \in [1..n -> 1..n] : \A i, j \in 1..n : t[i] = t[j] => i = j}

\* the position in S that the tree reports first
Closest(S, data, x, tie) ==
    CHOOSE i \in S : \A j \in S \ {i} :
        \/ SqDist(x, data[i]) < SqDist(x, data[j])
        \/ SqDist(x, data[i]) = SqDist(x, data[j]) /\ tie[i] < tie[j]

\* scipy.spatial.KDTree(data).query(x, k)[1] for one query point x: the
\* positions of the k nearest points, nearest first; when fewer than k points
\* exist the missing neighbours are reported as position n + 1 (self.n)
RECURSIVE KDTreeQueryFrom(_, _, _, _, _)
KDTreeQueryFrom(S, data, x, kk, tie) ==
    IF kk = 0 THEN <<>>
    ELSE IF S = {} THEN <<Len(data) + 1>> \o KDTreeQueryFrom(S, data, x, kk - 1, tie)
    ELSE LET i == Closest(S, data, x, tie)
         IN  <<i>> \o KDTreeQueryFrom(S \ {i}, data, x, kk - 1, tie)

KDTreeQuery(data, x, kk, tie) == KDTreeQueryFrom(1..Len(data), data, x, kk, tie)

\* ndarray.T: all axes reversed
ReverseTuple(t) == [d \in 1..Len(t) |-> t[Len(t) + 1 - d]]

TransposeAll(a) ==
    [shape |-> ReverseTuple(a.shape),
     val |-> [ix \in Indices(ReverseTuple(a.shape)) |-> a.val[ReverseTuple(ix)]]]

\* a[:, np.newaxis, :] for a 2-D array a
NewAxisMiddle(a) ==
    [shape |-> <<a.shape[1], 1, a.shape[2]>>,
     val |-> [ix \in Indices(<<a.shape[1], 1, a.shape[2]>>) |-> a.val[<<ix[1], ix[3]>>]]]

\* valid_inds[indices] for indices of shape (N,), as query returns for k = 1
Gather1(valid_inds, indices, ndim) ==
    [shape |-> <<Len(indices), ndim>>,
     val |-> [ix \in Indices(<<Len(indices), ndim>>) |->
                valid_inds[indices[ix[1] + 1][1]][ix[2] + 1]]]

\* valid_inds[indices] for indices of shape (N, k), k > 1
GatherK(valid_inds, indices, kk, ndim) ==
    [shape |-> <<Len(indices), kk, ndim>>,
     val |-> [ix \in Indices(<<Len(indices), kk, ndim>>) |->
                valid_inds[indices[ix[1] + 1][ix[2] + 1]][ix[3] + 1]]]

find_nearest_valid_voxels(queries, mask, kk, tie) ==
    LET valid_inds == argwhere(mask)
        n == Len(valid_inds)
        ndim == Len(mask.shape)
        indices == [i \in 1..Len(queries) |-> KDTreeQuery(valid_inds, queries[i], kk, tie)]
    IN  IF n = 0
        THEN Raise("ValueError", "find_nearest_valid_voxels")
        ELSE IF \E i \in 1..Len(queries), j \in 1..kk : indices[i][j] > n
        THEN Raise("IndexError", "valid_inds[indices]")   \* position self.n is out of bounds
        ELSE IF kk = 1
        THEN NewAxisMiddle(TransposeAll(Gather1(valid_inds, indices, ndim)))
        ELSE TransposeAll(GatherK(valid_inds, indices, kk, ndim))

(***************************************************************************)
(* Inputs: every boolean mask of shape (2, 2), the 6x6 masks whose True    *)
(* entries lie among three corners, and one 3-D mask; query points on and  *)
(* between voxels, some of them at equal distance from several voxels.     *)
(***************************************************************************)
MaskOf(shape, S) == [shape |-> shape, val |-> [ix \in Indices(shape) |-> ix \in S]]

Masks ==
    {MaskOf(<<2, 2>>, S) : S \in SUBSET Indices(<<2, 2>>)}
    \cup {MaskOf(<<6, 6>>, S) : S \in SUBSET {<<0, 0>>, <<5, 5>>, <<0, 5>>}}
    \cup {MaskOf(<<2, 2, 3>>, {<<1, 1, 1>>, <<1, 1, 2>>, <<0, 0, 0>>})}

QueryPoints(ndim) ==
    IF ndim = 2 THEN {<<1, 1>>, <<49, 49>>, <<5, 5>>, <<10, 3>>}
    ELSE {<<10, 10, 11>>, <<0, 5, 0>>}

QueryBatches(ndim) ==
    UNION {[1..N -> QueryPoints(ndim)] : N \in 1..MaxQueries}

InitNn ==
    /\ valid_mask \in Masks
    /\ query_indices \in QueryBatches(Len(valid_mask.shape))
    /\ n_neighbours \in 1..MaxK
    /\ dof_neighbours = None
    /\ ReoIdle /\ SpaceIdle /\ CocIdle /\ OpIdle /\ PtIdle /\ MemIdle /\ ErrIdle /\ DispIdle

\* find_nearest_valid_voxels(query_indices, valid_mask, n_neighbours)
FindNearestValidVoxels ==
    /\ dof_neighbours = None
    /\ \E tie \in TieOrders(Len(argwhere(valid_mask))) :
          dof_neighbours' =
              find_nearest_valid_voxels(query_indices, valid_mask, n_neighbours, tie)
    /\ UNCHANGED <<query_indices, valid_mask, n_neighbours,
                   reoVars, spaceVars, cocVars, opVars, ptVars, memVars, errVars, dispVars>>

NextNn == FindNearestValidVoxels

SpecNn == InitNn /\ [][NextNn]_vars

(***************************************************************************)
(* Properties of the nearest-valid-voxel search.                           *)
(***************************************************************************)
IsArray(x) == "shape" \in DOMAIN x

TrueEntries == {ix \in Indices(valid_mask.shape) : valid_mask.val[ix]}

\* the coordinate vector returned as neighbour j (0-based) of query i (0-based)
Neighbour(j, i) == [d \in 1..Len(valid_mask.shape) |-> dof_neighbours.val[<<d - 1, j, i>>]]

\* squared distance in hundredths, written out for any coordinate vector
Dist2(x, p) ==
    LET sq[d \in 0..Len(p)] == IF d = 0 THEN 0 ELSE sq[d - 1] + (x[d] - 10 * p[d]) * (x[d] - 10 * p[d])
    IN  sq[Len(p)]

\* C21: for 1 <= k <= number of True entries the call returns, for each
\* query point, k distinct coordinates at which the mask is True; they are
\* ordered nearest first and no True coordinate left out is closer to the
\* query than one that was returned.
C21_KNearestValidVoxels ==
    (dof_neighbours # None /\ n_neighbours <= Cardinality(TrueEntries)) =>
        /\ IsArray(dof_neighbours)
        /\ \A i \in 0..(Len(query_indices) - 1) :
              LET x == query_indices[i + 1]
                  K == 0..(n_neighbours - 1)
              IN  /\ \A j \in K : Neighbour(j, i) \in TrueEntries
                  /\ \A j, l \in K : Neighbour(j, i) = Neighbour(l, i) => j = l
                  /\ \A j, l \in K : j < l => Dist2(x, Neighbour(j, i)) <= Dist2(x, Neighbour(l, i))
                  /\ \A p \in TrueEntries \ {Neighbour(j, i) : j \in K} :
                        \A j \in K : Dist2(x, Neighbour(j, i)) <= Dist2(x, p)

\* the 6x6 example: only (0,0) and (5,5) True, k = 1, queries (0.1,0.1) and
\* (4.9,4.9) give (0,0) and (5,5)
C21_Witness ==
    /\ valid_mask = MaskOf(<<6, 6>>, {<<0, 0>>, <<5, 5>>})
    /\ n_neighbours = 1
    /\ query_indices = << <<1, 1>>, <<49, 49>> >>
    /\ dof_neighbours # None /\ IsArray(dof_neighbours)
    /\ Neighbour(0, 0) = <<0, 0>>
    /\ Neighbour(0, 1) = <<5, 5>>

\* C22: a mask with no True entry makes the call raise, whatever the
\* queries and k, and no neighbour is returned.
C22_EmptyMaskRaises ==
    (dof_neighbours # None /\ TrueEntries = {}) =>
        IsRaise(dof_neighbours) /\ ~IsArray(dof_neighbours)

C22_Witness ==
    /\ TrueEntries = {}
    /\ n_neighbours > 1
    /\ Len(query_indices) > 1
    /\ IsRaise(dof_neighbours) /\ dof_neighbours.exc = "ValueError"

\* C23: for a mask with at least one True entry, any k >= 1 and N query
\* points the call returns an array of shape (ndim, k, N).
C23_ShapeForEveryK ==
    (dof_neighbours # None /\ TrueEntries # {}) =>
        /\ IsArray(dof_neighbours)
        /\ dof_neighbours.shape =
              <<Len(valid_mask.shape), n_neighbours, Len(query_indices)>>

(***************************************************************************)
(* Array storage.  numpy arrays refer to buffers: basic slicing and        *)
(* transpose return views onto the buffer of the array they are applied    *)
(* to, copy() and the matrix product allocate a new buffer.  Here a buffer *)
(* is an entry of the sequence heap, numbered by its position; a data      *)
(* array is a reference [base, ix]: the buffer it reads and, as an ndarray *)
(* of buffer indices, the element of the buffer each of its own elements   *)
(* is stored at; an affine is a reference [base] to a whole 4x4 buffer.    *)
(* An MRIData object holds one reference of each kind.                     *)
(***************************************************************************)
IdentityIndex(shape) == [shape |-> shape, val |-> [ix \in Indices(shape) |-> ix]]

\* the ndarray a data reference denotes in the heap h
ViewValue(h, ref) ==
    [shape |-> ref.ix.shape,
     val |-> [i \in Indices(ref.ix.shape) |-> h[ref.base].val[ref.ix.val[i]]]]

\* the MRIData value (array and matrix) an object of references denotes
Deref(h, m) == MRIData(ViewValue(h, m.data), h[m.affine.base])

\* a variant of ndarray.copy() that returns the view it was given
np_copy_view(h, ref) == [heap |-> h, ref |-> ref]

\* ndarray.copy(): a new buffer holding the view's elements
np_copy(h, ref) ==
    [heap |-> Append(h, ViewValue(h, ref)),
     ref |-> [base |-> Len(h) + 1, ix |-> IdentityIndex(ref.ix.shape)]]

\* data_reorientation on references: the same steps as data_reorientation
\* above, with the buffer each intermediate array lives in
data_reorientation_refs(h, m) ==
    LET A == h[m.affine.base]
        shape == m.data.ix.shape
        flips == Flips(A)
        permutes == Permutes(A)
        offsets == Offsets(A, shape)
        F == FlipMatrix(flips, offsets)
        P == PermMatrix(permutes)
        affine == MatMul(MatMul(A, F), P)           \* the product is a new array
        inverse_permutes == InversePermutes(P)
        axes == TransposeAxes(inverse_permutes, Len(shape))
        sliced == [base |-> m.data.base, ix |-> FlipArray(m.data.ix, flips)]
        transposed == [base |-> sliced.base, ix |-> Transpose(sliced.ix, axes)]
        copied == np_copy(h, transposed)
    IN  IF \E c \in 1..3 : flips[c] = 0
        THEN [heap |-> h, ret |-> Raise("ValueError", "slice")]
        ELSE IF ~IsPermutation(axes)
        THEN [heap |-> h, ret |-> Raise("ValueError", "transpose")]
        ELSE [heap |-> Append(copied.heap, affine),
              ret |-> MRIData(copied.ref, [base |-> Len(copied.heap) + 1])]

\* Inputs: every signed permutation block of magnitude 1, a block whose
\* dominant rows collide and a block with a zero column.
MemLinearBlocks ==
    {[r \in 1..3 |-> [c \in 1..3 |-> IF r = p[c] THEN sg[c] ELSE 0]] :
        p \in Perms3, sg \in [1..3 -> {-1, 1}]}
    \cup { << <<1, 1, 0>>, <<0, 0, 0>>, <<0, 0, 1>> >>,
           << <<1, 0, 0>>, <<0, 0, 0>>, <<0, 0, 1>> >> }

MemInputs ==
    {MRIData(TaggedArray(sp \o tr), WithTranslation(B, t)) :
        sp \in SpatialShapes, tr \in TrailingShapes,
        B \in MemLinearBlocks, t \in Translations}

InitMem ==
    /\ \E m \in MemInputs :
          /\ heap = <<m.data, m.affine>>
          /\ caller_mri = MRIData([base |-> 1, ix |-> IdentityIndex(m.data.shape)],
                                  [base |-> 2])
    /\ returned_mri = None
    /\ writes_to = {}
    /\ ReoIdle /\ SpaceIdle /\ CocIdle /\ OpIdle /\ PtIdle /\ NnIdle /\ ErrIdle /\ DispIdle

\* returned_mri = data_reorientation(caller_mri)
DataReorientation ==
    /\ returned_mri = None
    /\ LET r == data_reorientation_refs(heap, caller_mri)
       IN  heap' = r.heap /\ returned_mri' = r.ret
    /\ UNCHANGED <<caller_mri, writes_to,
                   reoVars, spaceVars, cocVars, opVars, ptVars, nnVars, errVars, dispVars>>

\* an in-place write through the object m: m.data[i] += 1 or m.affine[r, c] += 1
WriteInPlace(m) ==
    \/ \E i \in Indices(m.data.ix.shape) :
          heap' = [heap EXCEPT ![m.data.base].val[m.data.ix.val[i]] = @ + 1]
    \/ \E r, c \in 1..4 :
          heap' = [heap EXCEPT ![m.affine.base][r][c] = @ + 1]

\* the caller writes into the dataset it passed (or is going to pass) in
WriteCaller ==
    /\ "caller" \notin writes_to
    /\ WriteInPlace(caller_mri)
    /\ writes_to' = writes_to \cup {"caller"}
    /\ UNCHANGED <<caller_mri, returned_mri,
                   reoVars, spaceVars, cocVars, opVars, ptVars, nnVars, errVars, dispVars>>

\* the caller writes into the dataset the call returned
WriteReturned ==
    /\ "returned" \notin writes_to
    /\ returned_mri # None /\ IsMRI(returned_mri)
    /\ WriteInPlace(returned_mri)
    /\ writes_to' = writes_to \cup {"returned"}
    /\ UNCHANGED <<caller_mri, returned_mri,
                   reoVars, spaceVars, cocVars, opVars, ptVars, nnVars, errVars, dispVars>>

NextMem == DataReorientation \/ WriteCaller \/ WriteReturned

SpecMem == InitMem /\ [][NextMem]_vars

(***************************************************************************)
(* Properties of the storage of reoriented datasets.                       *)
(***************************************************************************)
Returned == returned_mri # None /\ IsMRI(returned_mri)

\* C24: data_reorientation leaves the dataset it is given unchanged, the
\* array and affine of the dataset it returns live in buffers of their own,
\* and the returned dataset is the reorientation of the values passed in;
\* afterwards no step changes both datasets: an in-place write to one of
\* them leaves the other as it was.
C24_ReorientationAllocatesFresh ==
    [][/\ (returned_mri = None /\ returned_mri' # None) =>
              /\ Deref(heap', caller_mri') = Deref(heap, caller_mri)
              /\ IsMRI(returned_mri') =>
                    /\ Deref(heap', returned_mri') = data_reorientation(Deref(heap, caller_mri))
                    /\ {returned_mri'.data.base, returned_mri'.affine.base}
                          \cap {caller_mri.data.base, caller_mri.affine.base} = {}
       /\ (Returned /\ returned_mri' = returned_mri) =>
              \/ Deref(heap', caller_mri') = Deref(heap, caller_mri)
              \/ Deref(heap', returned_mri') = Deref(heap, returned_mri)
      ]_vars

\* both datasets were written in place after the call, and each shows its
\* own write only
C24_Witness ==
    /\ Returned
    /\ writes_to = {"caller", "returned"}
    /\ Len(heap) > 3
    /\ Deref(heap, returned_mri) # data_reorientation(Deref(heap, caller_mri))
    /\ Deref(heap, caller_mri).data # TaggedArray(caller_mri.data.ix.shape)
    /\ Flips(Deref(heap, caller_mri).affine)[1] < 0

(***************************************************************************)
(* Errors reaching the caller.  A caller invokes the four operations of    *)
(* the engine that can fail, with inputs for which exactly one failure     *)
(* condition of the engine holds, and keeps what it caught: the condition  *)
(* its input was in, and the class and origin of the exception raised.     *)
(***************************************************************************)
MaxCaught == 3    \* the caller keeps at most MaxCaught errors

Caught(condition, error) ==
    Append(caught, [condition |-> condition, exc |-> error.exc, by |-> error.by])

ErrLabels == {<<"R", "A", "S">>, <<"R", "A", "X">>, <<"R", "A">>, <<"L", "P", "I">>}

\* change_of_coordinates_map with a foreign character or an unmatched axis
CatchChangeOfCoordinates ==
    /\ Len(caught) < MaxCaught
    /\ \E lab_in \in ErrLabels, lab_out \in ErrLabels, nancast \in NanCasts :
          LET invalid == Foreign(lab_in) \/ Foreign(lab_out)
              r == change_of_coordinates_map(lab_in, lab_out, nancast)
          IN  /\ invalid # Unmatched(lab_in, lab_out)
              /\ IsRaise(r)
              /\ caught' = Caught(IF invalid THEN "InvalidAxisLabel" ELSE "UnmatchedAxis", r)
    /\ UNCHANGED <<reoVars, spaceVars, cocVars, opVars, ptVars, nnVars, memVars, dispVars>>

\* assert_same_space on two datasets of different shape or affine
CatchAssertSameSpace ==
    /\ Len(caught) < MaxCaught
    /\ \E sh1 \in SpaceShapes, sh2 \in SpaceShapes, rt \in Rtols :
          LET r == assert_same_space(MRIData(TaggedArray(sh1), BaseAffine),
                                     MRIData(TaggedArray(sh2), BaseAffine), rt)
          IN  /\ IsRaise(r)
              /\ caught' = Caught("SpaceMismatch", r)
    /\ UNCHANGED <<reoVars, spaceVars, cocVars, opVars, ptVars, nnVars, memVars, dispVars>>

\* physical_to_voxel_indices of the point [1, 2, 3] with an affine that has
\* no inverse
CatchPhysicalToVoxelIndices ==
    /\ Len(caught) < MaxCaught
    /\ \E T \in {M \in Affines1 : Det(M) = RZero}, lu \in LuRoundings :
          /\ IsRaise(np_linalg_inv(T, lu))
          /\ caught' = Caught("SingularMatrix",
                              physical_to_voxel_indices(<<RatPoint(<<1, 2, 3>>)>>, T, TRUE, lu))
    /\ UNCHANGED <<reoVars, spaceVars, cocVars, opVars, ptVars, nnVars, memVars, dispVars>>

\* find_nearest_valid_voxels of the point (0.1, 0.1) with a 2-D mask that
\* has no True entry
CatchFindNearestValidVoxels ==
    /\ Len(caught) < MaxCaught
    /\ \E m \in {M \in Masks : Len(M.shape) = 2 /\ \A ix \in DOMAIN M.val : ~M.val[ix]},
          kk \in 1..MaxK :
          LET r == find_nearest_valid_voxels(<< <<1, 1>> >>, m, kk, <<>>)
          IN  /\ IsRaise(r)
              /\ caught' = Caught("EmptyMask", r)
    /\ UNCHANGED <<reoVars, spaceVars, cocVars, opVars, ptVars, nnVars, memVars, dispVars>>

InitErr ==
    /\ caught = <<>>
    /\ ReoIdle /\ SpaceIdle /\ CocIdle /\ OpIdle /\ PtIdle /\ NnIdle /\ MemIdle /\ DispIdle

NextErr ==
    \/ CatchChangeOfCoordinates
    \/ CatchAssertSameSpace
    \/ CatchPhysicalToVoxelIndices
    \/ CatchFindNearestValidVoxels

SpecErr == InitErr /\ [][NextErr]_vars

\* C25: the five error conditions reach the caller as pairwise distinct
\* kinds: two errors caught for different conditions never have the same
\* exception class.
C25_ErrorKindsDistinct ==
    \A i, j \in 1..Len(caught) :
        caught[i].condition # caught[j].condition => caught[i].exc # caught[j].exc

(***************************************************************************)
(* The datasets command: datasets.dispatch(args).                          *)
(*                                                                         *)
(* args is a Python dict, here a function from the keys present to their   *)
(* values; a value is a string [kind |-> "str", s] or None.  The           *)
(* collaborators list_datasets, logger.error and download_multiple are     *)
(* recorded as calls [call, with] and not run.                             *)
(***************************************************************************)
Str(s) == [kind |-> "str", s |-> s]

IsStr(x, s) == x.kind = "str" /\ x.s = s

\* get_datasets(): the links mapping (file name to URL) of every dataset
get_datasets ==
    [key \in {"test-data", "gonzo", "ratbrain"} |->
        CASE key = "test-data" ->
               [links |->
                  [f \in {"mri-processed.zip", "timetable.tsv"} |->
                     IF f = "timetable.tsv"
                     THEN "https://github.com/jorgenriseth/gonzo/blob/main/mri_dataset/timetable.tsv?raw=true"
                     ELSE "https://zenodo.org/records/14266867/files/" \o f \o "?download=1"]]
          [] key = "gonzo" ->
               [links |->
                  [f \in {"data-descriptor-preprint.pdf", "fastsurfer.zip", "freesurfer.zip",
                          "mesh-data.zip", "mri-dataset-precontrast-only.zip",
                          "mri-dataset.zip", "mri-processed.zip", "README.md",
                          "surfaces.zip"} |->
                     "https://zenodo.org/records/14266867/files/" \o f \o "?download=1"]]
          [] key = "ratbrain" ->
               [links |->
                  [f \in {"brain.stl", "environment.yml", "LICENSE.txt", "mesh_generation.py",
                          "meshprocessing.py", "README.md", "segmentation.seg.nrrd",
                          "ventricles.stl"} |->
                     "https://zenodo.org/records/8138343/files/" \o f \o "?download=1"]]]

\* dict.pop(key): the dictionary without the key
Pop(d, key) == [k \in DOMAIN d \ {key} |-> d[k]]

Called(name, arguments) == [call |-> name, with |-> arguments]

\* a variant that hands the Dataset object to download_multiple
DownloadWholeDataset(dataset, outdir) ==
    Called("download_multiple", <<dataset, outdir>>)

\* line 208-209: links = datasets[dataset].links; download_multiple(links, outdir)
DownloadLinks(dataset, outdir) ==
    Called("download_multiple", <<dataset.links, outdir>>)

\* dispatch(args): the dictionary after the pops, the calls made, and the
\* outcome (a return, or the exception raised)
dispatch(a) ==
    LET subcommand == IF "datasets-command" \in DOMAIN a THEN a["datasets-command"] ELSE None
        a1 == Pop(a, "datasets-command")
        a2 == Pop(a1, "dataset")
        a3 == Pop(a2, "outdir")
        Returns == [kind |-> "return"]
    IN  IF IsStr(subcommand, "list")
        THEN [args |-> a1, effects |-> <<Called("list_datasets", <<>>)>>, ret |-> Returns]
        ELSE IF IsStr(subcommand, "download")
        THEN IF "dataset" \notin DOMAIN a1
             THEN [args |-> a1, effects |-> <<>>, ret |-> Raise("KeyError", "dataset")]
             ELSE IF "outdir" \notin DOMAIN a2
             THEN [args |-> a2, effects |-> <<>>, ret |-> Raise("KeyError", "outdir")]
             ELSE LET dataset == a1["dataset"]
                      outdir == a2["outdir"]
                      datasets == get_datasets
                  IN  IF outdir.kind = "none"
                      THEN [args |-> a3, ret |-> Returns,
                            effects |-> <<Called("logger.error", <<"Output directory">>)>>]
                      ELSE IF ~(dataset.kind = "str" /\ dataset.s \in DOMAIN datasets)
                      THEN [args |-> a3, ret |-> Returns,
                            effects |-> <<Called("logger.error", <<"Unknown dataset">>)>>]
                      ELSE [args |-> a3, ret |-> Returns,
                            effects |-> <<DownloadLinks(datasets[dataset.s], outdir)>>]
        ELSE [args |-> a1, effects |-> <<>>, ret |-> Raise("ValueError", "Unknown subcommand")]

\* Inputs: each of the three keys absent, None or a string
Absent == [kind |-> "absent"]

Subcommands == {Absent, None, Str("list"), Str("download"), Str("upload")}

DatasetNames == {Absent, None, Str("test-data"), Str("gonzo"), Str("nope")}

Outdirs == {Absent, None, Str("/tmp"), Str("out")}

ArgsOf(c, d, o) ==
    LET given == [k \in {"datasets-command", "dataset", "outdir"} |->
                    CASE k = "datasets-command" -> c [] k = "dataset" -> d [] k = "outdir" -> o]
    IN  [k \in {k \in DOMAIN given : given[k].kind # "absent"} |-> given[k]]

InitDisp ==
    /\ \E c \in Subcommands, d \in DatasetNames, o \in Outdirs : args = ArgsOf(c, d, o)
    /\ args0 = args
    /\ effects = <<>>
    /\ dispatched = None
    /\ ReoIdle /\ SpaceIdle /\ CocIdle /\ OpIdle /\ PtIdle /\ NnIdle /\ MemIdle /\ ErrIdle

Dispatch ==
    /\ dispatched = None
    /\ LET r == dispatch(args)
       IN  args' = r.args /\ effects' = r.effects /\ dispatched' = r.ret
    /\ UNCHANGED <<args0, reoVars, spaceVars, cocVars, opVars, ptVars, nnVars, memVars, errVars>>

NextDisp == Dispatch

SpecDisp == InitDisp /\ [][NextDisp]_vars

(***************************************************************************)
(* Properties of the datasets command.                                     *)
(***************************************************************************)
Given(key) == IF key \in DOMAIN args0 THEN args0[key] ELSE None

Downloads == SelectSeq(effects, LAMBDA e : e.call = "download_multiple")

Listings == SelectSeq(effects, LAMBDA e : e.call = "list_datasets")

KnownDataset == Given("dataset").kind = "str" /\ Given("dataset").s \in DOMAIN get_datasets

\* C26: 'list' calls list_datasets and starts no download; 'download' with a
\* known dataset and an output directory calls download_multiple exactly once,
\* with that dataset's links mapping and the output directory; 'download'
\* without output directory or with an unknown dataset starts no download; any
\* other subcommand raises ValueError ("Unknown subcommand").
C26_DispatchRoutesBySubcommand ==
    dispatched # None =>
        LET subcommand == Given("datasets-command")
        IN  /\ IsStr(subcommand, "list") =>
                  Len(Listings) = 1 /\ Downloads = <<>> /\ ~IsRaise(dispatched)
            /\ (IsStr(subcommand, "download") /\ KnownDataset /\ Given("outdir").kind = "str") =>
                  /\ Downloads =
                        <<Called("download_multiple",
                                 <<get_datasets[Given("dataset").s].links, Given("outdir")>>)>>
                  /\ ~IsRaise(dispatched)
            /\ (IsStr(subcommand, "download") /\ ~(KnownDataset /\ Given("outdir").kind = "str")) =>
                  Downloads = <<>>
            /\ ~(IsStr(subcommand, "list") \/ IsStr(subcommand, "download")) =>
                  /\ IsRaise(dispatched)
                  /\ dispatched.exc = "ValueError" /\ dispatched.by = "Unknown subcommand"
                  /\ effects = <<>>

\* 'download test-data -o /tmp' started the download of the two test files
C26_Witness ==
    /\ dispatched # None /\ ~IsRaise(dispatched)
    /\ IsStr(Given("datasets-command"), "download")
    /\ IsStr(Given("dataset"), "test-data")
    /\ IsStr(Given("outdir"), "/tmp")
    /\ Len(Downloads) = 1
    /\ DOMAIN Downloads[1].with[1] = {"mri-processed.zip", "timetable.tsv"}
    /\ args = <<>>

(***************************************************************************)
(* Further properties of canonical reorientation (SpecReo).                *)
(***************************************************************************)
\* row r holds the first entry of largest magnitude of column c of the block
DominantRow(affine, c, r) ==
    /\ \A q \in 1..3 : Abs(affine[q][c]) <= Abs(affine[r][c])
    /\ \A q \in 1..(r - 1) : Abs(affine[q][c]) < Abs(affine[r][c])

\* two columns of the block have their largest-magnitude entry in one row
Conflict(affine) ==
    \E c1, c2 \in 1..3, r \in 1..3 :
        c1 # c2 /\ DominantRow(affine, c1, r) /\ DominantRow(affine, c2, r)

\* C27 as stated: when two columns of the block have their largest-magnitude
\* entry in the same row, data_reorientation raises no error and returns a
\* dataset.
C27_ConflictReturnsDataset ==
    (calls > 0 /\ Conflict(prev.affine)) => IsMRI(mri)

\* C27, amended: in that case the call returns no dataset; it leaves with
\* the ValueError of the slice (zero step) or of transpose (repeated axis).
C27_ConflictRaises ==
    (calls > 0 /\ Conflict(prev.affine)) =>
        /\ IsRaise(mri)
        /\ mri.exc = "ValueError"
        /\ mri.by \in {"slice", "transpose"}

\* a conflict between two non-zero columns was met by transpose
C27_Witness ==
    /\ calls > 0
    /\ Conflict(prev.affine) /\ NoZeroColumn(prev.affine)
    /\ IsRaise(mri) /\ mri.by = "transpose"

(***************************************************************************)
(* Further properties of the points operations (SpecPts).                  *)
(***************************************************************************)
\* C28: with round_coords=True a coordinate exactly halfway between two
\* integers goes to the even one (0.5 -> 0, 1.5 -> 2, 2.5 -> 2, -0.5 -> 0,
\* -1.5 -> -2), every other coordinate to its unique nearest integer.
C28_HalfwayRoundsToEven ==
    (Inverted /\ LastStep.round_coords /\ Det(affine1) # RZero) =>
        LET expected == apply_affine_batch(Inverse(affine1), LastStep.from)
        IN  /\ points.kind = "points"
            /\ \A k \in 1..Len(expected), i \in 1..3 :
                  LET x == expected[k][i]
                      z == points.val[k][i]
                  IN  /\ z[2] = 1
                      /\ x[2] = 2 => z[1] % 2 = 0 /\ Abs(2 * z[1] - x[1]) = 1
                      /\ x[2] # 2 => 2 * Abs(z[1] * x[2] - x[1]) < x[2]
                      /\ x = Rat(1, 2) => z = Rat(0, 1)
                      /\ x = Rat(3, 2) => z = Rat(2, 1)
                      /\ x = Rat(5, 2) => z = Rat(2, 1)
                      /\ x = Rat(-1, 2) => z = Rat(0, 1)
                      /\ x = Rat(-3, 2) => z = Rat(-2, 1)

\* [0.5, 1.5, 2.5], [-0.5, -1.5, -2.5] were rounded under the identity
C28_Witness ==
    /\ Inverted /\ LastStep.round_coords
    /\ IsIdentity(affine1)
    /\ LastStep.from = << <<Rat(1, 2), Rat(3, 2), Rat(5, 2)>>,
                          <<Rat(-1, 2), Rat(-3, 2), Rat(-5, 2)>> >>
    /\ points.kind = "points"
    /\ points.val = <<RatPoint(<<0, 2, 2>>), RatPoint(<<0, -2, -2>>)>>

(***************************************************************************)
(* Further properties of the space-equality oracle (SpecSpace).            *)
(***************************************************************************)
\* the outcome of the call with the two datasets exchanged
Swapped == assert_same_space(mri2, mri1, rtol)

\* C29 as stated: assert_same_space(a, b, rtol) raises if and only if
\* assert_same_space(b, a, rtol) raises.
C29_SymmetricInDatasets ==
    same # None => (IsRaise(same) <=> IsRaise(Swapped))

\* C29, amended: the call raises if and only if the shapes differ or some
\* pair of affine entries violates |a - b| <= atol + rtol * |b|, the
\* tolerance being relative to the entry of the second dataset; the two
\* orders agree when rtol = 0 or corresponding entries have equal magnitude.
C29_ToleranceRelativeToSecond ==
    same # None =>
        LET A == mri1.affine
            B == mri2.affine
            shapes == mri1.data.shape = mri2.data.shape
        IN  /\ IsRaise(same) <=> ~(shapes /\ WithinTolerance(A, B, rtol))
            /\ IsRaise(Swapped) <=> ~(shapes /\ WithinTolerance(B, A, rtol))
            /\ (rtol[1] = 0 \/ \A i, j \in 1..4 : Abs(A[i][j]) = Abs(B[i][j])) =>
                  (IsRaise(same) <=> IsRaise(Swapped))

\* an entry 0 against an entry 2 (units of 1e-8) at rtol = 1/2: the call
\* returns, the call with the datasets exchanged raises
C29_Witness ==
    /\ same # None /\ ~IsRaise(same)
    /\ IsRaise(Swapped)
    /\ mri1.affine[2][3] = 0 /\ mri2.affine[2][3] = 2
    /\ rtol = <<1, 2>>

(***************************************************************************)
(* Further properties of the operations (SpecOps).                         *)
(***************************************************************************)
\* generate_stats_dataframe got as far as its loop over the regions
StatsLoopEntered ==
    /\ call # None /\ call.name = "generate_stats_dataframe"
    /\ \E p \in 1..Len(log) : log[p] = CombineEv({"seg", "mri"}, 105)

\* the voxels of the region with the given labels
RegionVoxels(labels) ==
    {ix \in DOMAIN locals["seg"].data.val : locals["seg"].data.val[ix] \in labels}

NonFinite(S) == {ix \in S : locals["mri"].data.val[ix] = NanVal}

\* C30: for every region with at least one voxel the record's num_nan_values
\* is the number of the region's voxels whose MRI value is not finite, the
\* statistics are those of its finite voxels, and a region with non-finite
\* voxels only gets a record without statistics; no error is raised.
C30_NonFiniteVoxelsCounted ==
    StatsLoopEntered =>
        /\ ~IsRaise(ret)
        /\ \A d \in DOMAIN ret.records :
              LET rec == ret.records[d]
                  region == RegionVoxels(rec.labels)
                  finite == region \ NonFinite(region)
              IN  region # {} =>
                      /\ rec.voxelcount = Cardinality(region)
                      /\ rec.num_nan_values = Cardinality(NonFinite(region))
                      /\ finite = {} => "sum" \notin DOMAIN rec
                      /\ finite # {} =>
                            /\ "sum" \in DOMAIN rec
                            /\ rec.sum = SumOver(finite, locals["mri"].data.val)
                            /\ rec.mean = <<rec.sum, Cardinality(finite)>>

====
